---- MODULE Spec2Model ----
(***************************************************************************)
(* A model of the feature / dataset / classifier / backtest pipeline of    *)
(* the bitget trading bot (src/ai/*.py).                                    *)
(*                                                                         *)
(* Numbers.  Python floats are modelled as exact rationals [n, d] (d > 0,  *)
(* lowest terms), so +, -, *, / and the comparisons are those of the reals *)
(* and no rounding error is modelled.  Two results that no rational holds  *)
(* (or that no 32-bit numerator holds) are kept exactly in another form:   *)
(*   - a square root divided by a number is the pair (radicand, divisor),  *)
(*     SqrtOver;                                                           *)
(*   - the exponential moving average is a fraction num / base^exp whose   *)
(*     numerator is a multi-limb natural number, BigFrac.                  *)
(* Candle fields are drawn from sets of integers.                          *)
(***************************************************************************)
EXTENDS Integers, Sequences, FiniteSets, TLC

VARIABLES
    fv_in,      \* compute_feature_vector: the arguments of the call
    fv_out,     \* compute_feature_vector: what the call returned or raised
    bd_in,      \* build_dataset: the arguments of the call
    bd,         \* build_dataset: its locals (pc, i, X, y, names)
    sim_in,     \* _simulate_pnl: the arguments of the call
    sim,        \* _simulate_pnl: its locals (pc, i, equity, ..., result)
    grid_in,    \* backtest_grid: what the grid search reads (proba, closes_test, grids, ...)
    grid,       \* backtest_grid: the locals of the grid search (pc, t, r, best, results)
    ms_in,      \* model store: the classifier or the document the run starts from
    ms,         \* model store: pc, the text written, the object read back, x and p
    sim_prev,   \* _simulate_pnl: the metrics an earlier call on the same arguments returned
    drv_in,     \* train_model / backtest_grid: the arguments and the candles of each symbol
    drv,        \* train_model / backtest_grid: pc, X_all, y_all, closes_all and what was done
    ab_in,      \* AdaBoostStumps.fit: X, y and n_rounds
    ab,         \* AdaBoostStumps.fit: pc, the round, the weights w and the stumps
    lg_in,      \* LogisticModel.fit: X, y, epochs, shuffle, lr and l2
    lg,         \* LogisticModel.fit: pc, weights, bias and the count of fit calls
    strat_in,   \* TradingStrategy: its fields and what the client answers
    strat       \* TradingStrategy: pc and the calls made on the client

fv_vars == <<fv_in, fv_out>>
bd_vars == <<bd_in, bd>>
sim_vars == <<sim_in, sim, sim_prev>>
grid_vars == <<grid_in, grid>>
ms_vars == <<ms_in, ms>>
drv_vars == <<drv_in, drv>>
ab_vars == <<ab_in, ab>>
lg_vars == <<lg_in, lg>>
strat_vars == <<strat_in, strat>>
vars == <<fv_vars, bd_vars, sim_vars, grid_vars, ms_vars, drv_vars, ab_vars, lg_vars, strat_vars>>

\* the value of the variables of a component that is not running
Idle == [pc |-> "idle"]

\* every component but c is not running
IdleBut(c) ==
    /\ c = "fv" \/ (fv_in = Idle /\ fv_out = Idle)
    /\ c = "bd" \/ (bd_in = Idle /\ bd = Idle)
    /\ c = "sim" \/ (sim_in = Idle /\ sim = Idle /\ sim_prev = Idle)
    /\ c = "grid" \/ (grid_in = Idle /\ grid = Idle)
    /\ c = "ms" \/ (ms_in = Idle /\ ms = Idle)
    /\ c = "drv" \/ (drv_in = Idle /\ drv = Idle)
    /\ c = "ab" \/ (ab_in = Idle /\ ab = Idle)
    /\ c = "lg" \/ (lg_in = Idle /\ lg = Idle)
    /\ c = "strat" \/ (strat_in = Idle /\ strat = Idle)

\* the variables of the other components
not_fv == <<bd_vars, sim_vars, grid_vars, ms_vars, drv_vars, ab_vars, lg_vars, strat_vars>>
not_bd == <<fv_vars, sim_vars, grid_vars, ms_vars, drv_vars, ab_vars, lg_vars, strat_vars>>
not_sim == <<fv_vars, bd_vars, grid_vars, ms_vars, drv_vars, ab_vars, lg_vars, strat_vars>>
not_grid == <<fv_vars, bd_vars, sim_vars, ms_vars, drv_vars, ab_vars, lg_vars, strat_vars>>
not_ms == <<fv_vars, bd_vars, sim_vars, grid_vars, drv_vars, ab_vars, lg_vars, strat_vars>>
not_drv == <<fv_vars, bd_vars, sim_vars, grid_vars, ms_vars, ab_vars, lg_vars, strat_vars>>
not_ab == <<fv_vars, bd_vars, sim_vars, grid_vars, ms_vars, drv_vars, lg_vars, strat_vars>>
not_lg == <<fv_vars, bd_vars, sim_vars, grid_vars, ms_vars, drv_vars, ab_vars, strat_vars>>
not_strat == <<fv_vars, bd_vars, sim_vars, grid_vars, ms_vars, drv_vars, ab_vars, lg_vars>>

(***************************************************************************)
(* Bounds of the model.                                                    *)
(***************************************************************************)
MaxN == 4          \* longest free-form candle history
MaxWindow == 2     \* largest window tried on free-form histories
MaxHorizon == 2    \* largest horizon tried on free-form histories

(***************************************************************************)
(* Sequences the way Python slices them.                                   *)
(***************************************************************************)
Min2(a, b) == IF a <= b THEN a ELSE b
Max2(a, b) == IF a >= b THEN a ELSE b
Abs(a) == IF a < 0 THEN -a ELSE a

\* s[-k:]  (k = 0 gives the whole list, as -0 is 0)
LastK(s, k) ==
    LET start == IF k > 0 THEN Max2(Len(s) - k, 0) ELSE Min2(-k, Len(s))
    IN  SubSeq(s, start + 1, Len(s))

\* s[:k] for 0 <= k
FirstK(s, k) == SubSeq(s, 1, Min2(k, Len(s)))

\* s[-k] for 1 <= k <= Len(s)
FromEnd(s, k) == s[Len(s) - k + 1]

\* sum(s), max(s), min(s) of a list of integers, taken by halves
RECURSIVE SumRange(_, _, _)
SumRange(s, lo, hi) ==
    IF lo > hi THEN 0
    ELSE IF lo = hi THEN s[lo]
    ELSE SumRange(s, lo, (lo + hi) \div 2) + SumRange(s, (lo + hi) \div 2 + 1, hi)

SumInt(s) == SumRange(s, 1, Len(s))

RECURSIVE MaxRange(_, _, _)
MaxRange(s, lo, hi) ==
    IF lo = hi THEN s[lo]
    ELSE Max2(MaxRange(s, lo, (lo + hi) \div 2), MaxRange(s, (lo + hi) \div 2 + 1, hi))

MaxInt(s) == MaxRange(s, 1, Len(s))

RECURSIVE MinRange(_, _, _)
MinRange(s, lo, hi) ==
    IF lo = hi THEN s[lo]
    ELSE Min2(MinRange(s, lo, (lo + hi) \div 2), MinRange(s, (lo + hi) \div 2 + 1, hi))

MinInt(s) == MinRange(s, 1, Len(s))

(***************************************************************************)
(* Exact rationals.                                                        *)
(***************************************************************************)
RECURSIVE GCD(_, _)
GCD(a, b) ==
    IF b = 0 THEN a
    ELSE CHOOSE g \in { GCD(y, r) : y \in { b }, r \in { a % b } } : TRUE

Rat(n, d) ==
    LET g == GCD(Abs(n), Abs(d))
        s == IF d < 0 THEN -1 ELSE 1
    IN  [n |-> s * (n \div g), d |-> s * (d \div g)]

I(k) == [n |-> k, d |-> 1]
Zero == I(0)
One == I(1)

RAdd(a, b) ==
    LET g == GCD(a.d, b.d)
    IN  Rat(a.n * (b.d \div g) + b.n * (a.d \div g), (a.d \div g) * b.d)
RNeg(a) == [n |-> -a.n, d |-> a.d]
RSub(a, b) == RAdd(a, RNeg(b))
RMul(a, b) ==
    LET g1 == GCD(Abs(a.n), b.d)
        g2 == GCD(Abs(b.n), a.d)
    IN  Rat((a.n \div g1) * (b.n \div g2), (a.d \div g2) * (b.d \div g1))
\* a / b for b # 0 (every caller guards b = 0 the way the code does)
RDiv(a, b) == RMul(a, Rat(b.d, b.n))
RLt(a, b) ==
    LET g == GCD(a.d, b.d)
    IN  a.n * (b.d \div g) < b.n * (a.d \div g)
RLe(a, b) == ~RLt(b, a)
RMax(a, b) == IF RLt(a, b) THEN b ELSE a
RMin(a, b) == IF RLt(b, a) THEN b ELSE a

\* sum(s) of a sequence of rationals, added by halves
RECURSIVE RSumRange(_, _, _)
RSumRange(s, lo, hi) ==
    IF lo > hi THEN Zero
    ELSE IF lo = hi THEN s[lo]
    ELSE CHOOSE r \in
             { RAdd(a, b) : a \in { RSumRange(s, lo, (lo + hi) \div 2) },
                            b \in { RSumRange(s, (lo + hi) \div 2 + 1, hi) } } : TRUE

RSum(s) == CHOOSE r \in { RSumRange(v, 1, Len(v)) : v \in { <<>> \o s } } : TRUE

(***************************************************************************)
(* Natural numbers of any size, as little-endian limbs in base 10000,      *)
(* without leading zero limbs (0 is the empty sequence).                   *)
(***************************************************************************)
Limb == 100 * 100

RECURSIVE BigOf(_)
BigOf(k) == IF k = 0 THEN <<>> ELSE <<k % Limb>> \o BigOf(k \div Limb)

\* b * m + carry for m >= 1 (a limb times m fits the machine integer)
RECURSIVE BigMulAdd(_, _, _)
BigMulAdd(b, m, carry) ==
    IF b = <<>>
    THEN BigOf(carry)
    ELSE <<(b[1] * m + carry) % Limb>> \o BigMulAdd(Tail(b), m, (b[1] * m + carry) \div Limb)

BigScale(b, m) == IF m = 0 THEN <<>> ELSE BigMulAdd(b, m, 0)

RECURSIVE BigAddC(_, _, _)
BigAddC(a, b, carry) ==
    IF a = <<>> THEN (IF carry = 0 THEN b ELSE BigAddC(<<carry>>, b, 0))
    ELSE IF b = <<>> THEN (IF carry = 0 THEN a ELSE BigAddC(a, <<carry>>, 0))
    ELSE <<(a[1] + b[1] + carry) % Limb>>
         \o BigAddC(Tail(a), Tail(b), (a[1] + b[1] + carry) \div Limb)

BigAdd(a, b) == BigAddC(a, b, 0)

\* the fraction num / base^exp
BigFrac(num, base, exp) == [num |-> num, base |-> base, exp |-> exp]

(***************************************************************************)
(* sqrt(radicand) / divisor, kept exact.  The radicand is >= 0 (math.sqrt  *)
(* raises otherwise) and the divisor is not 0; a zero radicand has the one *)
(* form (0, 1).                                                            *)
(***************************************************************************)
SqrtOver(radicand, divisor) ==
    IF radicand.n = 0
    THEN [radicand |-> Zero, divisor |-> One]
    ELSE [radicand |-> radicand, divisor |-> divisor]

SqrtIsZero(v) == v.radicand.n = 0
SqrtNonNeg(v) == v.radicand.n = 0 \/ v.divisor.n > 0

(***************************************************************************)
(* src/ai/features.py                                                      *)
(***************************************************************************)
Column(candles, field) == [k \in 1..Len(candles) |-> candles[k][field]]

_sma(values, period) ==
    IF Len(values) < period \/ period <= 0
    THEN IF values # <<>> THEN Rat(SumInt(values), Len(values)) ELSE Zero
    ELSE Rat(SumInt(LastK(values, period)), period)

\* One iteration of the loop of _ema, for v = values[j]: before it
\* ema_val = e.num / (period+1)^(j-2) and e.pow = (period+1)^(j-2).
EmaStep(e, v, period) ==
    [num |-> \* v * k + ema_val * (1 - k),  k = 2 / (period + 1)
             BigAdd(BigScale(e.pow, 2 * v), BigScale(e.num, period - 1)),
     pow |-> BigScale(e.pow, period + 1)]

\* The iterations for values[lo..hi] in order, the range split in halves
RECURSIVE EmaLoop(_, _, _, _, _)
EmaLoop(values, period, lo, hi, e) ==
    IF lo > hi THEN e
    ELSE IF lo = hi THEN EmaStep(e, values[lo], period)
    ELSE LET mid == (lo + hi) \div 2
             half == EmaLoop(values, period, lo, mid, e)
         IN  IF half.pow = <<>>     \* never: a power of period + 1 is not 0
             THEN half
             ELSE EmaLoop(values, period, mid + 1, hi, half)

_ema(values, period) ==
    IF values = <<>>
    THEN BigFrac(<<>>, 1, 0)
    ELSE IF period <= 1
    THEN BigFrac(BigOf(FromEnd(values, 1)), 1, 0)
    ELSE BigFrac(EmaLoop(values, period, 2, Len(values),
                         [num |-> BigOf(values[1]), pow |-> BigOf(1)]).num,
                 period + 1, Len(values) - 1)

\* the changes values[i] - values[i-1] for i in range(-period, 0)
RsiChanges(values, period) ==
    [k \in 1..period |->
        values[Len(values) - period + k] - values[Len(values) - period + k - 1]]

RECURSIVE RsiGains(_)
RsiGains(ch) ==
    IF ch = <<>> THEN 0 ELSE (IF ch[1] > 0 THEN ch[1] ELSE 0) + RsiGains(Tail(ch))

RECURSIVE RsiLosses(_)
RsiLosses(ch) ==
    IF ch = <<>> THEN 0 ELSE (IF ch[1] > 0 THEN 0 ELSE -ch[1]) + RsiLosses(Tail(ch))

_rsi(values, period) ==
    IF Len(values) < period + 1
    THEN I(50)
    ELSE LET gains == RsiGains(RsiChanges(values, period))
             losses == RsiLosses(RsiChanges(values, period))
         IN  IF losses = 0
             THEN I(100)
             ELSE LET rs == RDiv(Rat(gains, period), Rat(losses, period))
                  IN  RSub(I(100), RDiv(I(100), RAdd(One, rs)))

\* (x - mean) ** 2 for x in window
SqDevs(window, mean) ==
    [k \in 1..Len(window) |->
        RMul(RSub(I(window[k]), mean), RSub(I(window[k]), mean))]

_volatility(values, period0) ==
    LET period == IF Len(values) < period0 THEN Len(values) ELSE period0
    IN  IF period <= 1
        THEN SqrtOver(Zero, One)
        ELSE LET window == LastK(values, period)
                 mean == Rat(SumInt(window), period)
                 var == RDiv(RSum(SqDevs(window, mean)), I(period))
             IN  IF mean.n # 0 THEN SqrtOver(var, mean) ELSE SqrtOver(Zero, One)

\* A slip of RangePos: the low of the range taken from the highs.
RangePosLowOfHighs(last_close, recent_highs, recent_lows) ==
    LET rng_high == MaxInt(recent_highs)
        rng_low == MinInt(recent_highs)
    IN  IF rng_high = rng_low
        THEN Rat(1, 2)
        ELSE Rat(last_close - rng_low, rng_high - rng_low)

\* Price position inside recent range
RangePos(last_close, recent_highs, recent_lows) ==
    LET rng_high == MaxInt(recent_highs)
        rng_low == MinInt(recent_lows)
    IN  IF rng_high = rng_low
        THEN Rat(1, 2)
        ELSE Rat(last_close - rng_low, rng_high - rng_low)

\* A slip of FeatureNames: two names change places.
FeatureNamesSwapped ==
    <<"last_close", "sma_20", "sma_10", "ema_10", "ema_20", "rsi_14",
      "vol_20", "pos", "vol_ratio", "mom_1", "mom_5">>

FeatureNames ==
    <<"last_close", "sma_10", "sma_20", "ema_10", "ema_20", "rsi_14",
      "vol_20", "pos", "vol_ratio", "mom_1", "mom_5">>

\* Returns [raised, features, names]; raised = "" when the call returns.
compute_feature_vector(candles, window0) ==
    LET closes == Column(candles, "close")
        highs == Column(candles, "high")
        lows == Column(candles, "low")
        volumes == Column(candles, "volume")
        window == IF Len(closes) < window0 THEN Len(closes) ELSE window0
        recent_closes == LastK(closes, window)
        recent_highs == LastK(highs, window)
        recent_lows == LastK(lows, window)
        recent_vols == LastK(volumes, window)
    IN  IF recent_closes = <<>>
        THEN [raised |-> "IndexError", features |-> <<>>, names |-> <<>>]
        ELSE
        LET sma_10 == _sma(recent_closes, Min2(10, window))
            sma_20 == _sma(recent_closes, Min2(20, window))
            ema_10 == _ema(LastK(recent_closes, Min2(50, window)), Min2(10, window))
            ema_20 == _ema(LastK(recent_closes, Min2(50, window)), Min2(20, window))
            rsi_14 == _rsi(recent_closes, IF window > 1 THEN Min2(14, window - 1) ELSE 14)
            vol_20 == _volatility(recent_closes, Min2(20, window))
            last_close == FromEnd(recent_closes, 1)
            pos == RangePos(last_close, recent_highs, recent_lows)
            vol_mean == IF recent_vols # <<>>
                        THEN Rat(SumInt(recent_vols), Len(recent_vols)) ELSE Zero
            vol_last == IF recent_vols # <<>> THEN I(FromEnd(recent_vols, 1)) ELSE Zero
            vol_ratio == IF vol_mean.n # 0 THEN RDiv(vol_last, vol_mean) ELSE One
            mom_1 == IF Len(recent_closes) >= 2
                     THEN RSub(Rat(FromEnd(recent_closes, 1), FromEnd(recent_closes, 2)), One)
                     ELSE Zero
            mom_5 == IF Len(recent_closes) >= 6
                     THEN RSub(Rat(FromEnd(recent_closes, 1),
                                   FromEnd(recent_closes, Min2(6, Len(recent_closes)))), One)
                     ELSE Zero
        IN  [raised |-> "",
             features |-> <<I(last_close), sma_10, sma_20, ema_10, ema_20, rsi_14,
                            vol_20, pos, vol_ratio, mom_1, mom_5>>,
             names |-> FeatureNames]

\* the position of a name in the feature vector
RECURSIVE IndexOf(_, _)
IndexOf(names, name) == IF names[1] = name THEN 1 ELSE 1 + IndexOf(Tail(names), name)

Feature(fv, name) == fv.features[IndexOf(fv.names, name)]

(***************************************************************************)
(* Candle histories the calls are tried on.                                *)
(***************************************************************************)
Candle(ts, open, high, low, close, volume) ==
    [ts |-> ts, open |-> open, high |-> high, low |-> low, close |-> close,
     volume |-> volume]

\* <<open, high, low, close, volume>>: positive prices, non-negative volume;
\* the last shape closes above its high
CandleShapes ==
    { <<1, 1, 1, 1, 0>>, <<1, 2, 1, 2, 1>>, <<2, 3, 2, 3, 2>>, <<2, 2, 1, 1, 1>>,
      <<1, 2, 1, 3, 1>> }

History(shapes) ==
    [k \in 1..Len(shapes) |->
        Candle(k, shapes[k][1], shapes[k][2], shapes[k][3], shapes[k][4], shapes[k][5])]

\* every history of lo..hi candles of the given shapes
FreeHistories(shapes, lo, hi) == { History(s) : s \in UNION { [1..n -> shapes] : n \in lo..hi } }

\* n candles with open = high = low = close = price and a constant volume
FlatHistory(n, price, volume) ==
    [k \in 1..n |-> Candle(k, price, price, price, price, volume)]

\* n candles whose close rises by step from base
RisingHistory(n, base, step) ==
    [k \in 1..n |->
        LET c == base + step * (k - 1)
        IN  Candle(k, c, c + 1, c - 1, c, 10 + (k % 3))]

Well(candles) ==
    \A k \in 1..Len(candles) :
        /\ candles[k].low <= candles[k].close
        /\ candles[k].close <= candles[k].high

(***************************************************************************)
(* A call of compute_feature_vector.                                       *)
(***************************************************************************)
FvCalls ==
    { [candles |-> c, window |-> w] : c \in FreeHistories(CandleShapes, 0, MaxN), w \in 1..(MaxWindow + 1) }
    \cup { [candles |-> FlatHistory(100, 100, v), window |-> w] : v \in {0, 7}, w \in {1, 20, 50} }
    \cup { [candles |-> RisingHistory(30, b, 1), window |-> w] : b \in {100, 9000}, w \in {20, 50} }

InitFeatures ==
    /\ fv_in \in FvCalls
    /\ fv_out = [raised |-> "pending"]
    /\ IdleBut("fv")

CallComputeFeatureVector ==
    /\ fv_out = [raised |-> "pending"]
    /\ fv_out' = compute_feature_vector(fv_in.candles, fv_in.window)
    /\ UNCHANGED <<fv_in, not_fv>>

NextFeatures == CallComputeFeatureVector

SpecFeatures == InitFeatures /\ [][NextFeatures]_vars

(***************************************************************************)
(* build_dataset, one action per step of its loop.  Indices are Python's   *)
(* (from 0); At reads a list at one.                                       *)
(***************************************************************************)
At(s, i) == s[i + 1]

\* A slip of WindowCandles: the slice takes in candle i itself.
WindowCandlesThroughI(candles, i) == FirstK(candles, i + 1)

\* window_candles = candles[:i]
WindowCandles(candles, i) == FirstK(candles, i)

\* A slip of LabelThreshold: the percent used as a fraction.
LabelThresholdAsFraction(threshold_pct) == threshold_pct

\* threshold_pct / 100.0
LabelThreshold(threshold_pct) == RDiv(threshold_pct, I(100))

\* A slip of BdRange: the loop stops one index early.
BdRangeShort(n, window, horizon) == [first |-> window, stop |-> n - horizon - 1]

\* range(window, n - horizon)
BdRange(n, window, horizon) == [first |-> window, stop |-> n - horizon]

FutureRet(candles, horizon, i) ==
    RSub(Rat(At(candles, i + horizon).close, At(candles, i).close), One)

\* the body of the loop for index i: the feature call and the label
BuildExample(candles, window, horizon, threshold_pct, i) ==
    LET fv == compute_feature_vector(WindowCandles(candles, i), window)
    IN  [raised |-> fv.raised,
         feats |-> fv.features,
         names |-> fv.names,
         label |-> IF RLe(LabelThreshold(threshold_pct), FutureRet(candles, horizon, i))
                   THEN 1 ELSE 0]

BdStart ==
    /\ bd.pc = "start"
    /\ LET n == Len(bd_in.candles)
       IN  bd' = IF n < bd_in.window + bd_in.horizon + 1
                 THEN [bd EXCEPT !.pc = "returned"]
                 ELSE [bd EXCEPT !.pc = "loop",
                                 !.i = BdRange(n, bd_in.window, bd_in.horizon).first]
    /\ UNCHANGED <<bd_in, not_bd>>

BdIterate ==
    /\ bd.pc = "loop"
    /\ bd.i < BdRange(Len(bd_in.candles), bd_in.window, bd_in.horizon).stop
    /\ LET ex == BuildExample(bd_in.candles, bd_in.window, bd_in.horizon,
                              bd_in.threshold_pct, bd.i)
       IN  bd' = IF ex.raised # ""
                 THEN [bd EXCEPT !.pc = "raised"]
                 ELSE [bd EXCEPT !.X = Append(@, ex.feats), !.y = Append(@, ex.label),
                                 !.names = ex.names, !.i = @ + 1]
    /\ UNCHANGED <<bd_in, not_bd>>

BdReturn ==
    /\ bd.pc = "loop"
    /\ bd.i >= BdRange(Len(bd_in.candles), bd_in.window, bd_in.horizon).stop
    /\ bd' = [bd EXCEPT !.pc = "returned"]
    /\ UNCHANGED <<bd_in, not_bd>>

NextDataset == BdStart \/ BdIterate \/ BdReturn

BdEntry == [pc |-> "start", i |-> 0, X |-> <<>>, y |-> <<>>, names |-> <<>>]

ThresholdPcts == { Rat(1, 10), I(50) }

\* the shapes whose candles have low <= close <= high
WellShapes == { c \in CandleShapes : c[3] <= c[4] /\ c[4] <= c[2] }

\* free-form histories, every window and horizon from 1
BdCalls ==
    { [candles |-> c, window |-> w, horizon |-> h, threshold_pct |-> t] :
        c \in FreeHistories(WellShapes, 0, MaxN), w \in 1..MaxWindow, h \in 1..MaxHorizon,
        t \in ThresholdPcts }

InitDataset ==
    /\ bd_in \in BdCalls
    /\ bd = BdEntry
    /\ IdleBut("bd")

SpecDataset == InitDataset /\ [][NextDataset]_vars

\* the scenarios: 100 flat candles; 200 candles with a strictly rising close
BdScenarios ==
    { [candles |-> FlatHistory(100, 100, v), window |-> w, horizon |-> 5,
       threshold_pct |-> Rat(1, 10)] : v \in {0, 7}, w \in {1, 20, 50} }
    \cup { [candles |-> RisingHistory(200, b, s), window |-> 20, horizon |-> 5,
            threshold_pct |-> Rat(1, 10)] :
            <<b, s>> \in { <<100, 1>>, <<9801, 2>>, <<9000, 1>> } }

InitScenario ==
    /\ bd_in \in BdScenarios
    /\ bd = BdEntry
    /\ IdleBut("bd")

SpecScenario == InitScenario /\ [][NextDataset]_vars

(***************************************************************************)
(* Claims about the dataset builder and the feature extractor.             *)
(***************************************************************************)
\* the example the loop emits for index i, as the claims compare it
ExampleAt(call, i) ==
    LET ex == BuildExample(call.candles, call.window, call.horizon, call.threshold_pct, i)
    IN  [feats |-> ex.feats, label |-> ex.label]

\* C1: X and y have equal length at every step; no call raises; a returned
\* call holds n - W - H examples when n >= W + H + 1 and none otherwise; the
\* k-th example is the one of candle index W + k (k from 0), in ascending
\* order, and each labelled index i has i + H <= n - 1.
C1_DatasetShape ==
    bd.pc \in {"start", "loop", "returned", "raised"} =>
        LET n == Len(bd_in.candles)
            W == bd_in.window
            H == bd_in.horizon
        IN  /\ Len(bd.X) = Len(bd.y)
            /\ bd.pc # "raised"
            /\ bd.pc = "returned" =>
                   Len(bd.X) = IF n >= W + H + 1 THEN n - W - H ELSE 0
            /\ \A k \in 1..Len(bd.X) :
                   /\ (W + k - 1) + H <= n - 1
                   /\ [feats |-> bd.X[k], label |-> bd.y[k]] = ExampleAt(bd_in, W + k - 1)

\* a returned call with at least two examples
C1_Witness == bd.pc = "returned" /\ Len(bd.X) >= 2

\* the histories that agree with candles on every index < i and continue with
\* one or two candles of any shape
SamePrefix(candles, i) ==
    { FirstK(candles, i) \o s : s \in FreeHistories(WellShapes, 1, 2) }

\* C2: the feature vector emitted for index i is the same for every history
\* that agrees with the call's history on the candles of index < i, whatever
\* its candles at index i and later are.
C2_NoLookAhead ==
    bd.pc \in {"loop", "returned"} =>
        \A k \in 1..Len(bd.X) :
            \A other \in SamePrefix(bd_in.candles, bd_in.window + k - 1) :
                compute_feature_vector(WindowCandles(other, bd_in.window + k - 1),
                                       bd_in.window).features = bd.X[k]

\* an example was emitted for a history that has candles at index i and later
C2_Witness ==
    /\ bd.pc = "returned" /\ Len(bd.X) >= 1
    /\ \E other \in SamePrefix(bd_in.candles, bd_in.window) :
           At(other, bd_in.window) # At(bd_in.candles, bd_in.window)

IsFlat100 ==
    /\ bd.pc \in {"loop", "returned"}
    /\ \E v \in {0, 7} : bd_in.candles = FlatHistory(100, 100, v)

FirstExample == [features |-> bd.X[1], names |-> bd.names]

\* C8: for 100 flat candles the feature vector of the first eligible index
\* has volatility 0, range position 0.5, both momenta 0 and RSI 50.
C8_FlatFirstExample ==
    (IsFlat100 /\ Len(bd.X) >= 1) =>
        /\ SqrtIsZero(Feature(FirstExample, "vol_20"))
        /\ Feature(FirstExample, "pos") = Rat(1, 2)
        /\ Feature(FirstExample, "mom_1") = Zero
        /\ Feature(FirstExample, "mom_5") = Zero
        /\ Feature(FirstExample, "rsi_14") = I(50)

RsiInRange(fv) ==
    RLe(Zero, Feature(fv, "rsi_14")) /\ RLe(Feature(fv, "rsi_14"), I(100))
PosInRange(fv) ==
    RLe(Zero, Feature(fv, "pos")) /\ RLe(Feature(fv, "pos"), One)
VolInRange(fv) == SqrtNonNeg(Feature(fv, "vol_20"))

\* C9 as stated: for every non-empty sequence of candles with positive
\* prices and non-negative volume, and every window, RSI is in [0,100],
\* range position in [0,1] and volatility >= 0.
C9_AsStated ==
    fv_out.raised = "" => RsiInRange(fv_out) /\ PosInRange(fv_out) /\ VolInRange(fv_out)

\* C9 as amended: RSI is in [0,100] and volatility >= 0 for every such
\* sequence; range position is in [0,1] when every candle has
\* low <= close <= high.
C9_FeatureRanges ==
    fv_out.raised = "" =>
        /\ RsiInRange(fv_out)
        /\ VolInRange(fv_out)
        /\ Well(fv_in.candles) => PosInRange(fv_out)

\* well-formed candles with every ranged feature strictly inside its range
C9_Witness ==
    /\ fv_out.raised = "" /\ Well(fv_in.candles)
    /\ RLt(Zero, Feature(fv_out, "rsi_14")) /\ RLt(Feature(fv_out, "rsi_14"), I(100))
    /\ RLt(Zero, Feature(fv_out, "pos")) /\ RLt(Feature(fv_out, "pos"), One)
    /\ ~SqrtIsZero(Feature(fv_out, "vol_20"))

StrictlyRising(candles) ==
    \A k \in 1..(Len(candles) - 1) : candles[k].close < candles[k + 1].close

IsRising200 ==
    /\ bd.pc = "returned"
    /\ Len(bd_in.candles) = 200 /\ StrictlyRising(bd_in.candles)
    /\ bd_in.window = 20 /\ bd_in.horizon = 5 /\ bd_in.threshold_pct = Rat(1, 10)

\* C10 as stated: 200 candles with a strictly rising close, window 20,
\* horizon 5, threshold 0.1 percent: the dataset is not empty and every label
\* is 1.
C10_AsStated ==
    IsRising200 => Len(bd.y) > 0 /\ \A k \in 1..Len(bd.y) : bd.y[k] = 1

\* C10 as amended: the dataset is not empty and the label of index i is 1
\* exactly when close[i+5] / close[i] - 1 >= 0.1 / 100, so every label is 1
\* when every close is at least 0.1 percent above the close 5 candles before.
C10_Labels ==
    IsRising200 =>
        /\ Len(bd.y) > 0
        /\ \A k \in 1..Len(bd.y) :
               LET now == At(bd_in.candles, 20 + k - 1).close
                   then == At(bd_in.candles, 20 + k - 1 + 5).close
               IN  bd.y[k] = 1 <=> 1000 * (then - now) >= now

\* a rising series of 200 candles whose labels are all 1
C10_Witness ==
    IsRising200 /\ Len(bd.y) = 175 /\ \A k \in 1..Len(bd.y) : bd.y[k] = 1

(***************************************************************************)
(* _simulate_pnl, one action per way through the body of its loop.         *)
(* An optional argument is None or Some(v); float('-inf') and float('inf') *)
(* are the fractions -1/0 and 1/0, which RLt orders below and above every  *)
(* number.                                                                 *)
(***************************************************************************)
None == <<>>
Some(v) == <<v>>
IsNone(o) == Len(o) = 0
Val(o) == o[1]

NegInf == [n |-> -1, d |-> 0]
PosInf == [n |-> 1, d |-> 0]

\* A slip of SimEntry: the peak of the equity starts at zero.
SimEntryPeakZero(a) ==
    [pc |-> "loop", i |-> 0,
     equity |-> a.starting_balance, balance |-> Zero,
     equity_curve |-> <<a.starting_balance>>, pnl_list |-> <<>>,
     trades |-> 0, wins |-> 0,
     best_trade |-> NegInf, worst_trade |-> PosInf,
     peak_equity |-> Zero, max_dd_abs |-> Zero, max_dd_pct |-> Zero,
     result |-> None]

\* the locals before the loop
SimEntry(a) ==
    [pc |-> "loop", i |-> 0,
     equity |-> a.starting_balance, balance |-> Zero,
     equity_curve |-> <<a.starting_balance>>, pnl_list |-> <<>>,
     trades |-> 0, wins |-> 0,
     best_trade |-> NegInf, worst_trade |-> PosInf,
     peak_equity |-> a.starting_balance, max_dd_abs |-> Zero, max_dd_pct |-> Zero,
     result |-> None]

FeeRate(a) == RDiv(a.fee_bps, I(10000))
SlipRate(a) == RDiv(a.slippage_bps, I(10000))

\* ret, from the closes at i and i + horizon and the slippage
TradeReturn(a, i) ==
    LET entry == I(At(a.closes, i))
        exitp == I(At(a.closes, i + a.horizon))
        entry_eff == RMul(entry, RAdd(One, SlipRate(a)))
        exit_eff == RMul(exitp, RSub(One, SlipRate(a)))
    IN  RSub(RDiv(exit_eff, entry_eff), One)

\* A slip of StakeUsd: the stake of the usd mode in every mode.
StakeUsdFixed(a, equity) == RMul(a.risk_per_trade, a.leverage)

\* stake_usd, from the equity before the trade
StakeUsd(a, equity) ==
    LET risk_usd == IF a.risk_mode = "pct"
                    THEN RMul(equity, RDiv(a.risk_per_trade, I(100)))
                    ELSE a.risk_per_trade
    IN  RMul(risk_usd, a.leverage)

\* A slip of SimFees: the fee charged on one side only.
SimFeesOneSide(stake_usd, fee_rate) == RMul(stake_usd, fee_rate)

\* fees = stake_usd * fee_rate * 2.0
SimFees(stake_usd, fee_rate) == RMul(RMul(stake_usd, fee_rate), I(2))

\* A slip of DdStopHit: the stop needs the drawdown to exceed the percent.
DdStopHitStrict(dd_stop_pct, dd_pct) ==
    ~IsNone(dd_stop_pct) /\ RLt(Val(dd_stop_pct), RMul(dd_pct, I(100)))

\* dd_stop_pct is not None and dd_pct * 100.0 >= dd_stop_pct
DdStopHit(dd_stop_pct, dd_pct) ==
    ~IsNone(dd_stop_pct) /\ RLe(Val(dd_stop_pct), RMul(dd_pct, I(100)))

\* the trade at index st.i: lines 34 to 71
SimTrade(a, st) ==
    LET ret == TradeReturn(a, st.i)
        stake_usd == StakeUsd(a, st.equity)
        fees == SimFees(stake_usd, FeeRate(a))
        trade_pnl == RSub(RMul(stake_usd, ret), fees)
        equity == RAdd(st.equity, trade_pnl)
        peak_equity == RMax(st.peak_equity, equity)
        dd_abs == RSub(peak_equity, equity)
        dd_pct == IF peak_equity.n > 0 THEN RDiv(dd_abs, peak_equity) ELSE Zero
    IN  IF st.i + a.horizon >= Len(a.closes)
        THEN \* closes[i + horizon] raises IndexError
             [st EXCEPT !.pc = "raised"]
        ELSE
        [pc |-> IF DdStopHit(a.dd_stop_pct, dd_pct) THEN "after_loop" ELSE "loop",
         i |-> st.i + 1,
         equity |-> equity,
         balance |-> RSub(equity, a.starting_balance),
         equity_curve |-> Append(st.equity_curve, equity),
         pnl_list |-> Append(st.pnl_list, trade_pnl),
         trades |-> st.trades + 1,
         wins |-> IF trade_pnl.n > 0 THEN st.wins + 1 ELSE st.wins,
         best_trade |-> RMax(st.best_trade, trade_pnl),
         worst_trade |-> RMin(st.worst_trade, trade_pnl),
         peak_equity |-> peak_equity,
         max_dd_abs |-> RMax(st.max_dd_abs, dd_abs),
         max_dd_pct |-> RMax(st.max_dd_pct, dd_pct),
         result |-> None]

\* the three tests at the head of the loop body, for index st.i
Skips(a, st) == RLt(At(a.preds, st.i), a.threshold)
\* A slip of CapReached: the cap is reached once it is exceeded.
CapReachedAfter(a, st) == ~IsNone(a.max_trades) /\ st.trades > Val(a.max_trades)

\* max_trades is not None and trades >= max_trades
CapReached(a, st) == ~IsNone(a.max_trades) /\ st.trades >= Val(a.max_trades)

\* A slip of PastEnd: the loop goes on when i + horizon is len(closes).
PastEndLate(a, st) == st.i + a.horizon > Len(a.closes)

\* i + horizon >= len(closes)
PastEnd(a, st) == st.i + a.horizon >= Len(a.closes)

\* one pass through the loop body, for index st.i < len(preds)
SimIterate(a, st) ==
    IF Skips(a, st) THEN [st EXCEPT !.i = @ + 1]
    ELSE IF CapReached(a, st) THEN [st EXCEPT !.pc = "after_loop"]
    ELSE IF PastEnd(a, st) THEN [st EXCEPT !.pc = "after_loop"]
    ELSE SimTrade(a, st)

\* (x - avg) ** 2 for x in pnl_list
PnlSqDevs(pnl_list, avg) ==
    [k \in 1..Len(pnl_list) |->
        RMul(RSub(pnl_list[k], avg), RSub(pnl_list[k], avg))]

\* The Sharpe-like score (avg / std) * trades ** 0.5 with std = sqrt(var),
\* kept as its sign and its square avg^2 * trades / var; 0.0 when std is 0.
SharpeLike(avg, var, trades) ==
    IF var.n > 0
    THEN [sign |-> IF avg.n > 0 THEN 1 ELSE IF avg.n < 0 THEN -1 ELSE 0,
          square |-> RDiv(RMul(RMul(avg, avg), I(trades)), var)]
    ELSE [sign |-> 0, square |-> Zero]

\* x > y for two scores
SharpeGt(x, y) ==
    IF x.sign # y.sign THEN x.sign > y.sign
    ELSE IF x.sign = 1 THEN RLt(y.square, x.square)
    ELSE IF x.sign = -1 THEN RLt(x.square, y.square)
    ELSE FALSE

\* the metrics record: lines 73 to 89
SimMetrics(a, st) ==
    LET n == Len(st.pnl_list)
        win_rate == IF st.trades > 0 THEN Rat(st.wins, st.trades) ELSE Zero
        avg == IF n > 0 THEN RDiv(RSum(st.pnl_list), I(n)) ELSE Zero
        var == IF n > 1 THEN RDiv(RSum(PnlSqDevs(st.pnl_list, avg)), I(n)) ELSE Zero
    IN  [trades |-> st.trades,
         win_rate |-> win_rate,
         total_pnl |-> st.balance,
         final_equity |-> st.equity,
         return_pct |-> IF a.starting_balance.n > 0
                        THEN RMul(RSub(RDiv(st.equity, a.starting_balance), One), I(100))
                        ELSE Zero,
         max_drawdown |-> st.max_dd_abs,
         max_drawdown_pct |-> RMul(st.max_dd_pct, I(100)),
         best_trade |-> IF st.trades > 0 THEN st.best_trade ELSE Zero,
         worst_trade |-> IF st.trades > 0 THEN st.worst_trade ELSE Zero,
         sharpe_like |-> SharpeLike(avg, var, st.trades)]

\* the loop over the indices lo..hi, taken by halves
RECURSIVE SimLoop(_, _, _, _)
SimLoop(a, st, lo, hi) ==
    IF lo > hi \/ st.pc # "loop" THEN st
    ELSE IF lo = hi THEN SimIterate(a, st)
    ELSE LET half == SimLoop(a, st, lo, (lo + hi) \div 2)
         IN  IF half.pc # "loop" THEN half
             ELSE SimLoop(a, half, (lo + hi) \div 2 + 1, hi)

\* the whole call, for the callers of _simulate_pnl
_simulate_pnl(a) ==
    SimMetrics(a, SimLoop(a, SimEntry(a), 0, Len(a.preds) - 1))

SimSkip ==
    /\ sim.pc = "loop" /\ sim.i < Len(sim_in.preds)
    /\ Skips(sim_in, sim)
    /\ sim' = SimIterate(sim_in, sim)
    /\ UNCHANGED <<sim_in, sim_prev, not_sim>>

SimBreakMaxTrades ==
    /\ sim.pc = "loop" /\ sim.i < Len(sim_in.preds)
    /\ ~Skips(sim_in, sim) /\ CapReached(sim_in, sim)
    /\ sim' = SimIterate(sim_in, sim)
    /\ UNCHANGED <<sim_in, sim_prev, not_sim>>

SimBreakHorizon ==
    /\ sim.pc = "loop" /\ sim.i < Len(sim_in.preds)
    /\ ~Skips(sim_in, sim) /\ ~CapReached(sim_in, sim) /\ PastEnd(sim_in, sim)
    /\ sim' = SimIterate(sim_in, sim)
    /\ UNCHANGED <<sim_in, sim_prev, not_sim>>

SimTakeTrade ==
    /\ sim.pc = "loop" /\ sim.i < Len(sim_in.preds)
    /\ ~Skips(sim_in, sim) /\ ~CapReached(sim_in, sim) /\ ~PastEnd(sim_in, sim)
    /\ sim' = SimIterate(sim_in, sim)
    /\ UNCHANGED <<sim_in, sim_prev, not_sim>>

\* the loop is left (by break or at the end of preds): the metrics are returned
SimReturn ==
    /\ sim.pc = "after_loop" \/ (sim.pc = "loop" /\ sim.i >= Len(sim_in.preds))
    /\ sim' = [sim EXCEPT !.pc = "returned", !.result = Some(SimMetrics(sim_in, sim))]
    /\ UNCHANGED <<sim_in, sim_prev, not_sim>>

NextSim == SimSkip \/ SimBreakMaxTrades \/ SimBreakHorizon \/ SimTakeTrade \/ SimReturn

(***************************************************************************)
(* The calls of _simulate_pnl that are checked.                            *)
(***************************************************************************)
MaxPreds == 3      \* longest free-form list of probabilities
MaxCloses == 4     \* longest free-form list of closes

SeqsUpTo(S, n) == UNION { [1..k -> S] : k \in 0..n }

\* k copies of the list s, one after the other
RECURSIVE Repeat(_, _)
Repeat(s, k) ==
    IF k = 0 THEN <<>>
    ELSE IF k = 1 THEN s
    ELSE Repeat(s, k \div 2) \o Repeat(s, k - k \div 2)

SimCall(preds, closes, horizon, threshold, ex, starting_balance, dd_stop_pct, max_trades) ==
    [preds |-> preds, closes |-> closes, horizon |-> horizon, threshold |-> threshold,
     risk_per_trade |-> ex.risk_per_trade, leverage |-> ex.leverage,
     starting_balance |-> starting_balance, risk_mode |-> ex.risk_mode,
     fee_bps |-> ex.fee_bps, slippage_bps |-> ex.slippage_bps,
     dd_stop_pct |-> dd_stop_pct, max_trades |-> max_trades]

Exec(risk_mode, risk_per_trade, leverage, fee_bps, slippage_bps) ==
    [risk_mode |-> risk_mode, risk_per_trade |-> I(risk_per_trade), leverage |-> I(leverage),
     fee_bps |-> I(fee_bps), slippage_bps |-> I(slippage_bps)]

\* 10 USD unlevered without frictions; 10 USD at leverage 2 with a fee and a
\* slippage; the whole equity (50 percent at leverage 2) without frictions
FreeExecs ==
    { Exec("usd", 10, 1, 0, 0), Exec("usd", 10, 2, 100, 2500), Exec("pct", 50, 2, 0, 0) }

PredValues == { Rat(1, 4), Rat(3, 4) }
ClosePrices == { 8, 10 }

SimFreeCalls ==
    { SimCall(p, c, h, Rat(1, 2), ex, I(100), dd, mt) :
        p \in SeqsUpTo(PredValues, MaxPreds), c \in SeqsUpTo(ClosePrices, MaxCloses),
        h \in 1..MaxHorizon, ex \in FreeExecs,
        dd \in { None, Some(I(5)) }, mt \in { None, Some(2) } }

\* One eligible signal with entry 100 and exit 110; ten eligible signals on
\* closes that lose 2, 5 or 10 of 100 at each trade, with and without a stop
\* at 5 percent; percent-of-equity stakes with a fee and a slippage; a cap of
\* no trade and of one trade.
SimScenarios ==
    { SimCall(p, <<90, 100, 110, 120>>, 1, Rat(1, 2), Exec("usd", 10, 1, 0, 0), I(sb),
              None, None) :
        p \in { <<Rat(9, 10)>>, <<Rat(1, 10), Rat(9, 10)>>,
                <<Rat(1, 10), Rat(9, 10), Rat(1, 10)>> },
        sb \in { 100, 1000 } }
    \cup { SimCall(<<Rat(9, 10)>>, <<100, 110>>, 1, Rat(1, 2), Exec("usd", 10, 1, 0, 0),
                   I(sb), None, None) : sb \in { 100, 1000 } }
    \cup { SimCall(Repeat(<<Rat(9, 10), Rat(1, 10)>>, 10), Repeat(<<10, lo>>, 11), 1,
                   Rat(1, 2), Exec("usd", 10, lev, 0, 0), I(100), dd, None) :
            lo \in { 8, 5 }, lev \in { 1, 2 }, dd \in { None, Some(I(5)) } }
    \cup { SimCall(p, c, 1, Rat(1, 2), Exec("pct", 50, 2, 100, 2500), I(100), None, None) :
            p \in [1..2 -> PredValues], c \in [1..3 -> ClosePrices] }
    \cup { SimCall(p, c, 1, Rat(1, 2), Exec("usd", 10, 1, 0, 0), I(100), None, Some(mt)) :
            p \in [1..2 -> PredValues], c \in [1..3 -> ClosePrices], mt \in { 0, 1 } }

InitSim ==
    /\ sim_in \in SimFreeCalls \cup SimScenarios
    /\ sim = SimEntry(sim_in)
    /\ sim_prev = None
    /\ IdleBut("sim")

SpecSim == InitSim /\ [][NextSim]_vars

(***************************************************************************)
(* The grid search of backtest_grid (lines 129 to 144), one action per     *)
(* (threshold, risk) pair.  It starts where proba and closes_test are      *)
(* known; t and r are the positions in score_grid and risk_grid.           *)
(***************************************************************************)
GridEntry == [pc |-> "loop", t |-> 0, r |-> 0, best |-> None, results |-> <<>>]

\* metrics = _simulate_pnl(proba, closes_test, ..., threshold=thr, risk_per_trade=risk, ...)
GridMetrics(g, thr, risk) ==
    _simulate_pnl([preds |-> g.proba, closes |-> g.closes_test, horizon |-> g.horizon,
                   threshold |-> thr, risk_per_trade |-> risk, leverage |-> g.leverage,
                   starting_balance |-> g.starting_balance, risk_mode |-> g.risk_mode,
                   fee_bps |-> g.fee_bps, slippage_bps |-> g.slippage_bps,
                   dd_stop_pct |-> g.dd_stop_pct, max_trades |-> g.max_trades])

\* record = {"threshold": thr, "risk_per_trade": risk, ..., **metrics}
GridRecord(g, thr, risk) ==
    GridMetrics(g, thr, risk)
    @@ [threshold |-> thr, risk_per_trade |-> risk, risk_mode |-> g.risk_mode,
        fee_bps |-> g.fee_bps, slippage_bps |-> g.slippage_bps]

\* A slip of ReplacesBest: a record that ties with the best replaces it.
ReplacesBestOnTie(best, record) ==
    IsNone(best) \/ ~SharpeGt(Val(best).sharpe_like, record.sharpe_like)

\* best is None or record["sharpe_like"] > best["sharpe_like"]
ReplacesBest(best, record) ==
    IsNone(best) \/ SharpeGt(record.sharpe_like, Val(best).sharpe_like)

GridIterate ==
    /\ grid.pc = "loop"
    /\ grid.t < Len(grid_in.score_grid) /\ grid.r < Len(grid_in.risk_grid)
    /\ LET record == GridRecord(grid_in, At(grid_in.score_grid, grid.t),
                                At(grid_in.risk_grid, grid.r))
           inner_done == grid.r + 1 >= Len(grid_in.risk_grid)
       IN  grid' = [pc |-> "loop",
                    t |-> IF inner_done THEN grid.t + 1 ELSE grid.t,
                    r |-> IF inner_done THEN 0 ELSE grid.r + 1,
                    best |-> IF ReplacesBest(grid.best, record) THEN Some(record)
                             ELSE grid.best,
                    results |-> Append(grid.results, record)]
    /\ UNCHANGED <<grid_in, not_grid>>

\* both loops are over (an empty risk_grid leaves every outer pass empty)
GridReturn ==
    /\ grid.pc = "loop"
    /\ grid.t >= Len(grid_in.score_grid) \/ Len(grid_in.risk_grid) = 0
    /\ grid' = [grid EXCEPT !.pc = "returned"]
    /\ UNCHANGED <<grid_in, not_grid>>

NextGrid == GridIterate \/ GridReturn

\* probabilities on either side of the thresholds 0.5 and 0.8
GridProbas == { Rat(3, 5), Rat(9, 10) }
ScoreGrids == { <<>>, <<Rat(1, 2)>>, <<Rat(1, 2), Rat(4, 5)>>, <<Rat(4, 5), Rat(1, 2)>> }
RiskGrids == { <<>>, <<I(2)>>, <<I(2), I(4)>> }

\* proba and closes_test have one length, as the slices of lines 121 and 122 do
GridCalls ==
    { [proba |-> p, closes_test |-> c, horizon |-> 1, score_grid |-> sg, risk_grid |-> rg,
       leverage |-> ex.leverage, starting_balance |-> I(100), risk_mode |-> ex.risk_mode,
       fee_bps |-> ex.fee_bps, slippage_bps |-> ex.slippage_bps,
       dd_stop_pct |-> None, max_trades |-> None] :
        p \in [1..(MaxPreds + 1) -> GridProbas] \cup { <<>> },
        c \in [1..(MaxPreds + 1) -> ClosePrices] \cup { <<>> },
        sg \in ScoreGrids, rg \in RiskGrids,
        ex \in { Exec("usd", 0, 1, 0, 0), Exec("usd", 0, 2, 100, 2500) } }

InitGrid ==
    /\ grid_in \in { g \in GridCalls : Len(g.proba) = Len(g.closes_test) }
    /\ grid = GridEntry
    /\ IdleBut("grid")

SpecGrid == InitGrid /\ [][NextGrid]_vars

(***************************************************************************)
(* The classifiers and their JSON form.                                    *)
(*                                                                         *)
(* A Python dict is the sequence of its <<key, value>> members in          *)
(* insertion order.  json.dumps and json.loads are the library's: the text *)
(* of a dict of numbers, strings, lists and dicts is read back as that     *)
(* dict, so the text is kept as the dict it spells.                        *)
(*                                                                         *)
(* A probability is exact (0.0 or 1.0 of the clamp) or the logistic        *)
(* 1 / (1 + e^-z) of a score z, kept as z; a call that raises gives the    *)
(* name of the exception.                                                  *)
(***************************************************************************)
Keys(d) == { d[k][1] : k \in 1..Len(d) }
\* d[key]
Get(d, key) == d[CHOOSE k \in 1..Len(d) : d[k][1] = key][2]
\* d.get(key, default)
GetOr(d, key, default) == IF key \in Keys(d) THEN Get(d, key) ELSE default

JsonDumps(d) == [text_of |-> d]
JsonLoads(s) == s.text_of

PExact(v) == [raised |-> "", exact |-> TRUE, v |-> v]
PLogistic(z) == [raised |-> "", exact |-> FALSE, v |-> z]
PRaised(e) == [raised |-> e, exact |-> FALSE, v |-> Zero]

\* math.exp(x) raises OverflowError when e^x is above the largest float:
\* x > 709.78...  (no score of the model lies between 709.78 and 709.79)
MathExpOverflows(x) == RLt(Rat(70978, 100), x)

\* sum(w * xi for w, xi in zip(weights, x))
DotZip(weights, x) ==
    RSum([k \in 1..Min2(Len(weights), Len(x)) |-> RMul(weights[k], x[k])])

_sigmoid(z) ==
    IF RLt(z, I(-35)) THEN PExact(Zero)
    ELSE IF RLt(I(35), z) THEN PExact(One)
    ELSE PLogistic(z)

LogisticModel_predict_proba_one(m, x) == _sigmoid(RAdd(m.bias, DotZip(m.weights, x)))

LogisticModel_to_json(m) ==
    JsonDumps(<< <<"type", "logistic">>, <<"weights", m.weights>>, <<"bias", m.bias>>,
                 <<"lr", m.lr>>, <<"l2", m.l2>> >>)

LogisticModel_from_json(s) ==
    LET obj == JsonLoads(s)
    IN  [cls |-> "LogisticModel",
         weights |-> Get(obj, "weights"),
         bias |-> Get(obj, "bias"),
         lr |-> GetOr(obj, "lr", Rat(5, 100)),
         l2 |-> GetOr(obj, "l2", Rat(1, 10000))]

DecisionStump(feature_idx, threshold, polarity, alpha) ==
    [feature_idx |-> feature_idx, threshold |-> threshold, polarity |-> polarity,
     alpha |-> alpha]

DecisionStump_predict(s, x) ==
    LET val == At(x, s.feature_idx)
        pred == IF RLe(s.threshold, val) THEN 1 ELSE -1
    IN  IF s.polarity = 1 THEN pred ELSE -pred

DecisionStump_to_dict(s) ==
    << <<"feature_idx", s.feature_idx>>, <<"threshold", s.threshold>>,
       <<"polarity", s.polarity>>, <<"alpha", s.alpha>> >>

\* A slip of DecisionStump_from_dict: alpha is left at the constructor's default.
DecisionStump_from_dict_default_alpha(d) ==
    DecisionStump(Get(d, "feature_idx"), Get(d, "threshold"), Get(d, "polarity"), Zero)

DecisionStump_from_dict(d) ==
    DecisionStump(Get(d, "feature_idx"), Get(d, "threshold"), Get(d, "polarity"),
                  GetOr(d, "alpha", Zero))

decision_function(m, x) ==
    RSum([k \in 1..Len(m.stumps) |->
            RMul(m.stumps[k].alpha, I(DecisionStump_predict(m.stumps[k], x)))])

\* 1.0 / (1.0 + math.exp(-score)), with nothing that bounds the score
AdaBoostStumps_predict_proba_one(m, x) ==
    LET score == decision_function(m, x)
    IN  IF MathExpOverflows(RNeg(score)) THEN PRaised("OverflowError")
        ELSE PLogistic(score)

AdaBoostStumps_to_json(m) ==
    JsonDumps(<< <<"type", "adaboost_stumps">>, <<"n_rounds", m.n_rounds>>,
                 <<"stumps", [k \in 1..Len(m.stumps) |-> DecisionStump_to_dict(m.stumps[k])]>> >>)

AdaBoostStumps_from_json(s) ==
    LET obj == JsonLoads(s)
        ds == GetOr(obj, "stumps", <<>>)
    IN  [cls |-> "AdaBoostStumps",
         n_rounds |-> GetOr(obj, "n_rounds", 50),
         stumps |-> [k \in 1..Len(ds) |-> DecisionStump_from_dict(ds[k])]]

\* the methods of an object, found by its class
to_json(m) ==
    IF m.cls = "LogisticModel" THEN LogisticModel_to_json(m) ELSE AdaBoostStumps_to_json(m)
from_json(cls, s) ==
    IF cls = "LogisticModel" THEN LogisticModel_from_json(s) ELSE AdaBoostStumps_from_json(s)
predict_proba_one(m, x) ==
    IF m.cls = "LogisticModel" THEN LogisticModel_predict_proba_one(m, x)
    ELSE AdaBoostStumps_predict_proba_one(m, x)

\* s = M.to_json()
MsToJson ==
    /\ ms.pc = "trained"
    /\ ms' = [ms EXCEPT !.pc = "serialized", !.text = Some(to_json(Val(ms_in.model)))]
    /\ UNCHANGED <<ms_in, not_ms>>

\* d[key] of a key that the dict lacks raises KeyError: the keys that
\* from_dict and the two from_json read without a default
DecisionStump_from_dict_raises(d) ==
    ~({ "feature_idx", "threshold", "polarity" } \subseteq Keys(d))
from_json_raises(cls, s) ==
    LET obj == JsonLoads(s)
        ds == GetOr(obj, "stumps", <<>>)
    IN  IF cls = "LogisticModel"
        THEN ~({ "weights", "bias" } \subseteq Keys(obj))
        ELSE \E k \in 1..Len(ds) : DecisionStump_from_dict_raises(ds[k])

\* M2 = from_json(s), by the class that the caller names
MsFromJson ==
    /\ ms.pc \in { "serialized", "document" }
    /\ ms' = IF from_json_raises(ms_in.cls, Val(ms.text))
             THEN [ms EXCEPT !.pc = "raised"]
             ELSE [ms EXCEPT !.pc = "loaded",
                             !.reloaded = Some(from_json(ms_in.cls, Val(ms.text)))]
    /\ UNCHANGED <<ms_in, not_ms>>

(***************************************************************************)
(* The classifiers, documents and feature vectors that are checked.        *)
(***************************************************************************)
MaxStumps == 2     \* most stumps of a free-form boosted classifier

FeatureVectors == [1..2 -> { I(0), I(2) }]

LogisticModels ==
    { [cls |-> "LogisticModel", weights |-> w, bias |-> b, lr |-> lr, l2 |-> l2] :
        w \in [1..2 -> { I(-40), Rat(1, 2), I(40) }], b \in { Zero, I(-1) },
        lr \in { Rat(5, 100), Rat(1, 10) }, l2 \in { Rat(1, 10000), Zero } }

StumpSet ==
    { DecisionStump(fi, I(1), pol, alpha) :
        fi \in { 0, 1 }, pol \in { 1, -1 }, alpha \in { Rat(1, 2), I(400) } }

\* What fit leaves after n rounds on rows that one stump separates: every
\* round finds error 0, raises it to 1e-9 and appends the same stump with
\* alpha = 0.5 * log((1 - 1e-9) / 1e-9) = 10.3616..., here cut to 10.361.
FittedOnSeparable(n) ==
    [cls |-> "AdaBoostStumps", n_rounds |-> n,
     stumps |-> Repeat(<<DecisionStump(0, I(1), 1, Rat(10361, 1000))>>, n)]

BoostedModels ==
    { [cls |-> "AdaBoostStumps", n_rounds |-> n, stumps |-> s] :
        n \in { 2, 60 }, s \in SeqsUpTo(StumpSet, MaxStumps) }
    \cup { FittedOnSeparable(n) : n \in { 60, 68, 69, 100 } }

\* documents that no to_json wrote: keys left out, a large alpha
Documents ==
    { [cls |-> "AdaBoostStumps",
       text |-> JsonDumps(<< <<"type", "adaboost_stumps">>,
                             <<"stumps", << << <<"feature_idx", 0>>, <<"threshold", I(1)>>,
                                               <<"polarity", pol>> >> >> >> >>)] :
        pol \in { 1, -1 } }
    \cup { [cls |-> "AdaBoostStumps",
            text |-> JsonDumps(<< <<"type", "adaboost_stumps">>, <<"n_rounds", 1>>,
                                  <<"stumps", << DecisionStump_to_dict(
                                        DecisionStump(0, I(1), 1, I(a))) >> >> >>)] :
            a \in { 700, 800 } }
    \cup { [cls |-> "LogisticModel",
            text |-> JsonDumps(<< <<"type", "logistic">>, <<"weights", <<I(1), I(-1)>> >>,
                                  <<"bias", b>> >>)] : b \in { Zero, I(36) } }
    \cup { [cls |-> cls, text |-> t] :
            cls \in { "LogisticModel", "AdaBoostStumps" },
            t \in { JsonDumps(<<>>),
                    JsonDumps(<< <<"type", "adaboost_stumps">>, <<"n_rounds", 60>> >>),
                    JsonDumps(<< <<"type", "adaboost_stumps">>, <<"n_rounds", 60>>,
                                 <<"stumps", << << <<"threshold", I(1)>>,
                                                   <<"polarity", 1>>,
                                                   <<"alpha", One>> >> >> >> >>),
                    LogisticModel_to_json([weights |-> <<I(1), I(-1)>>, bias |-> One,
                                           lr |-> Rat(5, 100), l2 |-> Zero]),
                    AdaBoostStumps_to_json([n_rounds |-> 60,
                        stumps |-> <<DecisionStump(0, I(1), 1, One)>>]) } }

MsEntry(pc, text) == [pc |-> pc, text |-> text, reloaded |-> None, x |-> None, p |-> None]

\* p = predict_proba_one(x), of the trained object or of the one read back
MsPredictProbaOne ==
    /\ ms.pc \in { "trained", "loaded" }
    /\ \E x \in FeatureVectors :
         LET m == IF ms.pc = "trained" THEN Val(ms_in.model) ELSE Val(ms.reloaded)
         IN  ms' = [ms EXCEPT !.pc = "predicted", !.x = Some(x),
                              !.p = Some(predict_proba_one(m, x))]
    /\ UNCHANGED <<ms_in, not_ms>>

NextModel == MsToJson \/ MsFromJson \/ MsPredictProbaOne

InitModel ==
    /\ \/ \E m \in LogisticModels \cup BoostedModels :
            /\ ms_in = [given |-> "model", cls |-> m.cls, model |-> Some(m)]
            /\ ms = MsEntry("trained", None)
       \/ \E d \in Documents :
            /\ ms_in = [given |-> "document", cls |-> d.cls, model |-> None]
            /\ ms = MsEntry("document", Some(d.text))
    /\ IdleBut("ms")

SpecModel == InitModel /\ [][NextModel]_vars

(***************************************************************************)
(* Claims about the backtest simulator and the grid search.                *)
(***************************************************************************)
\* the indices of the eligible signals (p >= threshold), in order
EligibleIdx(a) ==
    SelectSeq([k \in 1..Len(a.preds) |-> k - 1], LAMBDA i : RLe(a.threshold, At(a.preds, i)))

\* the P&L that the stated formulas give to a trade at index i that is taken
\* when the equity is `equity`
StatedTradePnl(a, i, equity) ==
    LET slip_rate == RDiv(a.slippage_bps, I(10000))
        fee_rate == RDiv(a.fee_bps, I(10000))
        entry == RMul(I(At(a.closes, i)), RAdd(One, slip_rate))
        exit == RMul(I(At(a.closes, i + a.horizon)), RSub(One, slip_rate))
        return == RSub(RDiv(exit, entry), One)
        risk == IF a.risk_mode = "pct"
                THEN RDiv(RMul(equity, a.risk_per_trade), I(100))
                ELSE a.risk_per_trade
        stake == RMul(risk, a.leverage)
        fees == RAdd(RMul(stake, fee_rate), RMul(stake, fee_rate))
    IN  RSub(RMul(stake, return), fees)

\* one eligible signal, tradeable, with entry 100 and exit 110, risk 10 USD,
\* leverage 1, no fee, no slippage
SingleTradeScenario(a) ==
    /\ Len(EligibleIdx(a)) = 1
    /\ EligibleIdx(a)[1] + a.horizon < Len(a.closes)
    /\ At(a.closes, EligibleIdx(a)[1]) = 100
    /\ At(a.closes, EligibleIdx(a)[1] + a.horizon) = 110
    /\ a.risk_mode = "usd" /\ a.risk_per_trade = I(10) /\ a.leverage = One
    /\ a.fee_bps = Zero /\ a.slippage_bps = Zero
    /\ IsNone(a.max_trades)

\* C3: the k-th trade of _simulate_pnl is taken at the k-th eligible index i
\* and its P&L is stake * return - fees with entry = close[i] * (1 + slip_rate),
\* exit = close[i + horizon] * (1 - slip_rate), return = exit / entry - 1,
\* stake = risk * leverage and fees = stake * fee_rate * 2; the P&L is added to
\* the equity.  A single eligible trade with entry 100, exit 110, risk 10 USD,
\* leverage 1 and no frictions gives P&L 1, final equity starting_balance + 1
\* and win_rate 1.
C3_TradeArithmetic ==
    sim.pc # "idle" =>
        /\ Len(sim.pnl_list) = sim.trades
        /\ Len(sim.equity_curve) = sim.trades + 1
        /\ sim.equity_curve[1] = sim_in.starting_balance
        /\ sim.equity = sim.equity_curve[sim.trades + 1]
        /\ sim.trades <= Len(EligibleIdx(sim_in))
        /\ \A k \in 1..sim.trades :
             /\ sim.pnl_list[k] =
                    StatedTradePnl(sim_in, EligibleIdx(sim_in)[k], sim.equity_curve[k])
             /\ sim.equity_curve[k + 1] = RAdd(sim.equity_curve[k], sim.pnl_list[k])
        /\ (sim.pc = "returned" /\ SingleTradeScenario(sim_in)) =>
             /\ Val(sim.result).trades = 1
             /\ sim.pnl_list = <<One>>
             /\ Val(sim.result).total_pnl = One
             /\ Val(sim.result).final_equity = RAdd(sim_in.starting_balance, One)
             /\ Val(sim.result).win_rate = One

\* the single-trade scenario has returned
C3_Witness ==
    /\ sim.pc = "returned"
    /\ SingleTradeScenario(sim_in)
    /\ Val(sim.result).trades = 1
    /\ Val(sim.result).best_trade = One

\* max(s[lo..hi]) of a list of rationals, by halves
RECURSIVE RMaxRange(_, _, _)
RMaxRange(s, lo, hi) ==
    IF lo = hi THEN s[lo]
    ELSE RMax(RMaxRange(s, lo, (lo + hi) \div 2), RMaxRange(s, (lo + hi) \div 2 + 1, hi))

\* (peak_equity - equity) / peak_equity * 100 at the completion of trade k,
\* from the equity curve (whose first entry is the starting balance)
DrawdownPctAfter(curve, k) ==
    LET peak == RMaxRange(curve, 1, k + 1)
    IN  RMul(RDiv(RSub(peak, curve[k + 1]), peak), I(100))

Breaches(k) == RLe(Val(sim_in.dd_stop_pct), DrawdownPctAfter(sim.equity_curve, k))

\* dd_stop_pct = 5, ten eligible signals, losing trades, and the third trade
\* is the first at whose completion the drawdown is 5 percent or more
DrawdownScenario ==
    /\ sim_in.dd_stop_pct = Some(I(5))
    /\ Len(EligibleIdx(sim_in)) = 10
    /\ \A k \in 1..10 : EligibleIdx(sim_in)[k] + sim_in.horizon < Len(sim_in.closes)
    /\ sim.trades >= 3
    /\ \A k \in 1..3 : sim.pnl_list[k].n < 0
    /\ ~Breaches(1) /\ ~Breaches(2) /\ Breaches(3)

\* C4: with dd_stop_pct configured, a trade at whose completion the drawdown
\* percent (peak_equity - equity) / peak_equity * 100 is >= dd_stop_pct is the
\* last trade: the loop is left at once, the trades up to it are kept and
\* reported.  With dd_stop_pct = 5 and ten eligible signals of which the third
\* trade first breaches 5 percent, 3 trades are reported.
C4_DrawdownStop ==
    (sim.pc # "idle" /\ ~IsNone(sim_in.dd_stop_pct)) =>
        /\ \A k \in 1..sim.trades : Breaches(k) => (k = sim.trades /\ sim.pc # "loop")
        /\ Len(sim.pnl_list) = sim.trades
        /\ sim.pc = "returned" => Val(sim.result).trades = sim.trades
        /\ (sim.pc = "returned" /\ DrawdownScenario) => Val(sim.result).trades = 3

\* the drawdown scenario has returned with 3 of its 10 signals traded
C4_Witness ==
    /\ sim.pc = "returned"
    /\ DrawdownScenario
    /\ Val(sim.result).trades = 3
    /\ Val(sim.result).max_drawdown_pct = I(6)

\* the (threshold, risk) pair of the k-th pass of the two loops
PairAt(g, k) ==
    [threshold |-> g.score_grid[((k - 1) \div Len(g.risk_grid)) + 1],
     risk |-> g.risk_grid[((k - 1) % Len(g.risk_grid)) + 1]]

\* no record of the results scores above the k-th
TopScore(results, k) ==
    \A j \in 1..Len(results) : ~SharpeGt(results[j].sharpe_like, results[k].sharpe_like)

\* the thresholds 0.5 and 0.8 in either order, one risk
TwoThresholds(g) ==
    /\ g.score_grid \in { <<Rat(1, 2), Rat(4, 5)>>, <<Rat(4, 5), Rat(1, 2)>> }
    /\ Len(g.risk_grid) = 1

RecordOf(results, thr) == results[CHOOSE k \in 1..Len(results) : results[k].threshold = thr]

\* C5: the grid search returns one record per (threshold, risk) pair in
\* iteration order (thresholds outside, risks inside), each holding the
\* metrics of its pair, and best is the first record in that order whose
\* sharpe_like no record exceeds (None when there is no pair).  With the
\* thresholds 0.5 and 0.8 and one risk, best.threshold is 0.8 whenever 0.8
\* scores higher, however many trades 0.5 yields.
C5_BestOfGrid ==
    grid.pc = "returned" =>
        LET res == grid.results
            n == Len(res)
        IN  /\ n = Len(grid_in.score_grid) * Len(grid_in.risk_grid)
            /\ \A k \in 1..n :
                 /\ res[k].threshold = PairAt(grid_in, k).threshold
                 /\ res[k].risk_per_trade = PairAt(grid_in, k).risk
                 /\ res[k].sharpe_like =
                        GridMetrics(grid_in, PairAt(grid_in, k).threshold,
                                    PairAt(grid_in, k).risk).sharpe_like
            /\ n = 0 => IsNone(grid.best)
            /\ n > 0 =>
                 /\ ~IsNone(grid.best)
                 /\ \E k \in 1..n :
                      /\ TopScore(res, k)
                      /\ \A j \in 1..(k - 1) : ~TopScore(res, j)
                      /\ Val(grid.best) = res[k]
            /\ (TwoThresholds(grid_in)
                  /\ SharpeGt(RecordOf(res, Rat(4, 5)).sharpe_like,
                              RecordOf(res, Rat(1, 2)).sharpe_like)) =>
                 Val(grid.best).threshold = Rat(4, 5)

\* 0.5 comes first and yields more trades, 0.8 scores higher and is best
C5_Witness ==
    /\ grid.pc = "returned"
    /\ grid_in.score_grid = <<Rat(1, 2), Rat(4, 5)>> /\ Len(grid_in.risk_grid) = 1
    /\ grid.results[1].trades > grid.results[2].trades
    /\ SharpeGt(grid.results[2].sharpe_like, grid.results[1].sharpe_like)
    /\ Val(grid.best).threshold = Rat(4, 5)

(***************************************************************************)
(* Claims about the classifiers.                                           *)
(***************************************************************************)
\* C6: for a trained model M of either variant, from_json(to_json(M)) has the
\* fields of M (weights, bias, lr, l2; or n_rounds and every stump's
\* feature_idx, threshold, polarity and alpha, in order), its to_json is the
\* text that was read, and its predict_proba_one agrees with that of M on
\* every feature vector.
C6_RoundTrip ==
    (ms.pc = "loaded" /\ ms_in.given = "model") =>
        LET M == Val(ms_in.model)
            M2 == Val(ms.reloaded)
        IN  /\ M2 = M
            /\ M.cls = "AdaBoostStumps" =>
                 /\ M2.n_rounds = M.n_rounds
                 /\ Len(M2.stumps) = Len(M.stumps)
                 /\ \A k \in 1..Len(M.stumps) :
                      /\ M2.stumps[k].feature_idx = M.stumps[k].feature_idx
                      /\ M2.stumps[k].threshold = M.stumps[k].threshold
                      /\ M2.stumps[k].polarity = M.stumps[k].polarity
                      /\ M2.stumps[k].alpha = M.stumps[k].alpha
            /\ M.cls = "LogisticModel" =>
                 /\ M2.weights = M.weights /\ M2.bias = M.bias
                 /\ M2.lr = M.lr /\ M2.l2 = M.l2
            /\ to_json(M2) = Val(ms.text)
            /\ \A x \in FeatureVectors : predict_proba_one(M2, x) = predict_proba_one(M, x)

\* a boosted classifier of two stumps with different alphas has been read back
C6_Witness ==
    /\ ms.pc = "loaded" /\ ms_in.given = "model"
    /\ ms_in.cls = "AdaBoostStumps"
    /\ Len(Val(ms_in.model).stumps) = 2
    /\ Val(ms_in.model).stumps[1].alpha # Val(ms_in.model).stumps[2].alpha
    /\ Val(ms.reloaded).stumps = Val(ms_in.model).stumps

\* p is a real number in [0, 1]: nothing was raised; the clamp's value is 0 or
\* 1 and a logistic of a real score lies strictly between them
InUnitInterval(p) ==
    /\ p.raised = ""
    /\ p.exact => (RLe(Zero, p.v) /\ RLe(p.v, One))

\* C7: predict_proba_one of every classifier, fitted or read from JSON,
\* returns a real p with 0 <= p <= 1 for every feature vector.
C7_ProbaInUnitInterval ==
    ms.pc = "predicted" => InUnitInterval(Val(ms.p))

(***************************************************************************)
(* Claims about the shape of the feature vector and short histories.       *)
(***************************************************************************)
FvDone == fv_out.raised # "pending"

\* C11: for every window W with 1 <= W <= candle count, compute_feature_vector
\* returns 11 features and 11 names, the names being last_close, sma_10,
\* sma_20, ema_10, ema_20, rsi_14, vol_20, pos, vol_ratio, mom_1, mom_5 in that
\* order whatever W and the candles are; the first feature is the last close.
C11_FixedLayout ==
    (FvDone /\ 1 <= fv_in.window /\ fv_in.window <= Len(fv_in.candles)) =>
        /\ fv_out.raised = ""
        /\ Len(fv_out.features) = 11
        /\ fv_out.names =
             <<"last_close", "sma_10", "sma_20", "ema_10", "ema_20", "rsi_14",
               "vol_20", "pos", "vol_ratio", "mom_1", "mom_5">>
        /\ fv_out.features[1] = I(fv_in.candles[Len(fv_in.candles)].close)

\* a call on 100 candles with window 20 has returned its 11 features
C11_Witness ==
    /\ FvDone
    /\ Len(fv_in.candles) = 100 /\ fv_in.window = 20
    /\ Len(fv_out.features) = 11 /\ Len(fv_out.names) = 11

\* C12: on a candle sequence shorter than the window W (every length from 0
\* to W - 1) compute_feature_vector returns a feature vector and raises nothing.
C12_ShortHistory ==
    (FvDone /\ Len(fv_in.candles) < fv_in.window) =>
        (fv_out.raised = "" /\ Len(fv_out.features) = 11)

(***************************************************************************)
(* Claims about reading a model record.                                    *)
(***************************************************************************)
\* the record of a boosted classifier is complete: it is of that variant, it
\* has the stump list, and every stump has its four fields
CompleteBoostedRecord(obj) ==
    /\ { "type", "n_rounds", "stumps" } \subseteq Keys(obj)
    /\ Get(obj, "type") = "adaboost_stumps"
    /\ \A k \in 1..Len(Get(obj, "stumps")) :
         { "feature_idx", "threshold", "polarity", "alpha" }
            \subseteq Keys(Get(obj, "stumps")[k])

\* C13: reading a malformed or incomplete record as a boosted classifier (no
\* stump list, a stump without alpha, a record of the other variant) ends in
\* an error: no model object comes out of it.
C13_IncompleteRecordRaises ==
    (ms_in.cls = "AdaBoostStumps" /\ ms_in.given = "document"
       /\ ms.pc \in { "loaded", "predicted", "raised" }
       /\ ~CompleteBoostedRecord(JsonLoads(Val(ms.text)))) =>
        ms.pc = "raised"

(***************************************************************************)
(* train_model and backtest_grid: the dataset combined over the symbols,   *)
(* the check that it is not empty, and what is done with it.               *)
(***************************************************************************)
\* the loop of build_dataset from index i on; an exception of the feature
\* call leaves the function
RECURSIVE BuildLoop(_, _, _, _, _, _)
BuildLoop(candles, window, horizon, threshold_pct, i, acc) ==
    IF i >= BdRange(Len(candles), window, horizon).stop THEN acc
    ELSE CHOOSE r \in
             { IF ex.raised # "" THEN [raised |-> ex.raised, X |-> <<>>, y |-> <<>>]
               ELSE BuildLoop(candles, window, horizon, threshold_pct, i + 1,
                              [raised |-> "", X |-> Append(acc.X, ex.feats),
                               y |-> Append(acc.y, ex.label)]) :
                 ex \in { BuildExample(candles, window, horizon, threshold_pct, i) } } :
             TRUE

\* X and y of build_dataset, in one step
build_dataset(candles, window, horizon, threshold_pct) ==
    IF Len(candles) < window + horizon + 1 THEN [raised |-> "", X |-> <<>>, y |-> <<>>]
    ELSE BuildLoop(candles, window, horizon, threshold_pct,
                   BdRange(Len(candles), window, horizon).first,
                   [raised |-> "", X |-> <<>>, y |-> <<>>])

\* seq[a:b] of Python, a >= 0; a negative b counts from the end
PySlice(seq, a, b) ==
    LET stop == IF b < 0 THEN Max2(0, Len(seq) + b) ELSE Min2(b, Len(seq))
    IN  IF a >= stop THEN <<>> ELSE SubSeq(seq, a + 1, stop)

\* A slip of NoData: the check never fires.
NoDataNever(X_all) == FALSE

\* `not X_all`
NoData(X_all) == X_all = <<>>

DrvEntry ==
    [pc |-> "symbols", k |-> 0, X_all |-> <<>>, y_all |-> <<>>, closes_all |-> <<>>,
     raised |-> "", fits |-> 0, fit_n |-> 0, grids |-> 0, writes |-> 0]

\* one turn of `for sym in symbols`: the candles the client answers, the
\* dataset built on them, and the extension of the combined lists
DrvSymbol ==
    /\ drv.pc = "symbols"
    /\ drv.k < Len(drv_in.candles_of)
    /\ \E ds \in { build_dataset(drv_in.candles_of[drv.k + 1], drv_in.window,
                                 drv_in.horizon, drv_in.threshold_pct) } :
        LET candles == drv_in.candles_of[drv.k + 1]
            closes == PySlice([j \in 1..Len(candles) |-> candles[j].close],
                              drv_in.window, Len(candles) - drv_in.horizon)
            m == IF drv_in.entry = "backtest_grid" THEN Min2(Len(ds.X), Len(closes))
                 ELSE Len(ds.X)
        IN  drv' = IF ds.raised # ""
                   THEN [drv EXCEPT !.pc = "raised", !.raised = ds.raised]
                   ELSE [drv EXCEPT !.k = @ + 1,
                                    !.X_all = @ \o PySlice(ds.X, 0, m),
                                    !.y_all = @ \o PySlice(ds.y, 0, m),
                                    !.closes_all =
                                        IF drv_in.entry = "backtest_grid"
                                        THEN @ \o PySlice(closes, 0, m) ELSE @]
    /\ UNCHANGED <<drv_in, not_drv>>

\* `if not X_all: raise RuntimeError(...)`
DrvCheck ==
    /\ drv.pc = "symbols"
    /\ drv.k >= Len(drv_in.candles_of)
    /\ drv' = IF NoData(drv.X_all)
              THEN [drv EXCEPT !.pc = "raised", !.raised = "RuntimeError"]
              ELSE [drv EXCEPT !.pc = "fit"]
    /\ UNCHANGED <<drv_in, not_drv>>

\* the largest power of two that is at most k, for k >= 1 and p = 1
RECURSIVE TopPow2(_, _)
TopPow2(k, p) == IF 2 * p > k THEN p ELSE TopPow2(k, 2 * p)

\* A slip of SplitIndex: seven tenths computed in integers.
SplitIndexExact(n) == (7 * n) \div 10

\* int(0.7 * n) for a length n below 2^28. The float 0.7 is 0.7 - 2^-52 / 5,
\* so the product is 0.7 * n - n * 2^-52 / 5, rounded to the nearest float.
\* When 7 * n / 10 is not whole the integer part is that of 7 * n / 10. When
\* n = 10 * j the product lies j * 2^-51 below 7 * j, and the floats below
\* 7 * j are 2^-52 * p apart for p the largest power of two up to 7 * j: the
\* product rounds to 7 * j when 4 * j <= p and to the float below it, whose
\* integer part is 7 * j - 1, when 4 * j > p (90 gives 62, 170 gives 118).
SplitIndex(n) ==
    IF n > 0 /\ n % 10 = 0 /\ 4 * (n \div 10) > TopPow2(7 * (n \div 10), 1)
    THEN 7 * (n \div 10) - 1
    ELSE (7 * n) \div 10

\* AdaBoostStumps(n_rounds=60).fit: on the first 70 % of the examples in
\* backtest_grid, on all of them in train_model
DrvFit ==
    /\ drv.pc = "fit"
    /\ drv' = [drv EXCEPT !.fits = @ + 1,
                          !.fit_n = IF drv_in.entry = "backtest_grid"
                                    THEN SplitIndex(Len(drv.X_all))
                                    ELSE Len(drv.X_all),
                          !.pc = IF drv_in.entry = "backtest_grid" THEN "grid" ELSE "write"]
    /\ UNCHANGED <<drv_in, not_drv>>

\* the grid search of backtest_grid on the test examples
DrvGrid ==
    /\ drv.pc = "grid"
    /\ drv' = [drv EXCEPT !.grids = @ + 1, !.pc = "returned"]
    /\ UNCHANGED <<drv_in, not_drv>>

\* train_model writes model.to_json() to model_path and returns the path
DrvWrite ==
    /\ drv.pc = "write"
    /\ drv' = [drv EXCEPT !.writes = @ + 1, !.pc = "returned"]
    /\ UNCHANGED <<drv_in, not_drv>>

NextDriver == DrvSymbol \/ DrvCheck \/ DrvFit \/ DrvGrid \/ DrvWrite

\* candles of two shapes, for the first symbol
DrvShapes == { <<1, 1, 1, 1, 0>>, <<1, 2, 1, 2, 1>> }

\* what the client answers for each symbol: no symbol, one, or two
DrvCandles ==
    LET first == FreeHistories(DrvShapes, 0, MaxN)
        second == { RisingHistory(n, 5, 1) : n \in 0..MaxN }
    IN  { <<>> } \cup { <<c>> : c \in first } \cup { <<c, d>> : c \in first, d \in second }

DrvCalls ==
    { [entry |-> e, candles_of |-> cs, window |-> w, horizon |-> 1,
       threshold_pct |-> Rat(1, 10)] :
        e \in { "backtest_grid", "train_model" }, cs \in DrvCandles, w \in 0..MaxWindow }

InitDriver ==
    /\ drv_in \in DrvCalls
    /\ drv = DrvEntry
    /\ IdleBut("drv")

SpecDriver == InitDriver /\ [][NextDriver]_vars

\* no symbol has more than window + horizon candles: no example can be built
NoSymbolHasExamples ==
    \A k \in 1..Len(drv_in.candles_of) :
        Len(drv_in.candles_of[k]) < drv_in.window + drv_in.horizon + 1

DrvNothingDone == drv.fits = 0 /\ drv.grids = 0 /\ drv.writes = 0

\* C14: when the dataset combined over the symbols is empty, backtest_grid
\* and train_model end with RuntimeError, and no classifier was fitted, no
\* grid searched and no file written; and nothing of the three is ever done
\* on an empty combined dataset.
C14_EmptyDatasetRaises ==
    drv.pc # "idle" =>
        /\ (NoSymbolHasExamples /\ drv.pc # "symbols") =>
               (drv.pc = "raised" /\ drv.raised = "RuntimeError" /\ DrvNothingDone)
        /\ drv.pc \in { "fit", "grid", "write", "returned" } => drv.X_all # <<>>
        /\ drv.pc \in { "symbols", "raised" } => DrvNothingDone

C14_Witness ==
    /\ drv.pc = "raised" /\ drv.raised = "RuntimeError"
    /\ Len(drv_in.candles_of) = 2 /\ drv.k = 2
    /\ Len(drv_in.candles_of[1]) > 0
    /\ drv.X_all = <<>> /\ DrvNothingDone

\* the indices below upto whose signal is eligible and whose exit price
\* closes[i + horizon] exists
TradableIdx(a, upto) ==
    { i \in 0..(upto - 1) :
        /\ i < Len(a.preds) /\ RLe(a.threshold, At(a.preds, i))
        /\ i + a.horizon < Len(a.closes) }

MetricsFields ==
    { "trades", "win_rate", "total_pnl", "final_equity", "return_pct", "max_drawdown",
      "max_drawdown_pct", "best_trade", "worst_trade", "sharpe_like" }

\* C15: _simulate_pnl never raises on the read of closes[i + horizon]; every
\* trade taken is at an index i with i + horizon < len(closes); and the call
\* returns a complete metrics record with the trade count reached, which for
\* no trade is 0 trades, win_rate 0, total_pnl 0 and final_equity =
\* starting_balance.
C15_HorizonTruncates ==
    sim.pc # "idle" =>
        /\ sim.pc # "raised"
        /\ sim.trades <= Cardinality(TradableIdx(sim_in, sim.i))
        /\ sim.pc = "returned" =>
               LET r == Val(sim.result)
               IN  /\ DOMAIN r = MetricsFields
                   /\ r.trades = sim.trades
                   /\ sim.trades = 0 =>
                          /\ r.win_rate = Zero /\ r.total_pnl = Zero
                          /\ r.final_equity = sim_in.starting_balance

\* a horizon longer than the price history, with an eligible signal: the
\* record comes back with no trade
C15_Witness ==
    /\ sim.pc = "returned"
    /\ sim_in.horizon >= Len(sim_in.closes) /\ Len(sim_in.closes) > 0
    /\ \E i \in 0..(Len(sim_in.preds) - 1) : RLe(sim_in.threshold, At(sim_in.preds, i))
    /\ Val(sim.result).trades = 0
    /\ Val(sim.result).final_equity = sim_in.starting_balance

(***************************************************************************)
(* Two calls of _simulate_pnl on the same arguments, one after the other.  *)
(***************************************************************************)
\* A slip of SimLocalsAtCall: the equity an earlier call left is kept.
SimLocalsKept(a, left) ==
    [SimEntry(a) EXCEPT !.equity = left.equity, !.peak_equity = left.peak_equity]

\* the locals at the entry of a call that follows a call that left `left`:
\* lines 11 to 24 assign every local from the arguments or from a literal,
\* and the function reads no global and draws no random number
SimLocalsAtCall(a, left) == SimEntry(a)

\* the caller keeps the record of the first call and calls again
SimCallAgain ==
    /\ sim.pc = "returned"
    /\ sim_prev = None
    /\ sim_prev' = sim.result
    /\ sim' = SimLocalsAtCall(sim_in, sim)
    /\ UNCHANGED <<sim_in, not_sim>>

NextSimTwice == NextSim \/ SimCallAgain

SpecSimTwice == InitSim /\ [][NextSimTwice]_vars

RECURSIVE RLtWide(_, _)
RLtWide(a, b) ==
    LET fa == a.n \div a.d
        fb == b.n \div b.d
        ra == a.n % a.d
        rb == b.n % b.d
    IN  IF fa # fb THEN fa < fb
        ELSE IF rb = 0 THEN FALSE
        ELSE IF ra = 0 THEN TRUE
        ELSE CHOOSE r \in { RLtWide(x, y) : x \in { [n |-> b.d, d |-> rb] },
                                             y \in { [n |-> a.d, d |-> ra] } } : TRUE

\* the number of elements of S below x
RankIn(S, x) == Cardinality({ v \in S : RLt(v, x) })

\* sorted(set(vals))
SortedSet(vals) ==
    LET S == { vals[k] : k \in 1..Len(vals) }
    IN  CHOOSE r \in
            { [k \in 1..Cardinality(ranked) |-> (CHOOSE q \in ranked : q[1] = k - 1)[2]] :
                ranked \in { { <<RankIn(S, x), x>> : x \in S } } } : TRUE

\* seq[::step]
PyStride(seq, step) ==
    [k \in 1..((Len(seq) + step - 1) \div step) |-> seq[(k - 1) * step + 1]]

\* the thresholds tried for a column of feature values: lines 110 to 115
CandidateThresholds(vals) ==
    CHOOSE r \in
        { IF Len(unique_vals) > 50
          THEN PyStride(unique_vals, Max2(1, Len(unique_vals) \div 50))
          ELSE unique_vals : unique_vals \in { SortedSet(vals) } } : TRUE

\* y2
SignedLabels(y) == [i \in 1..Len(y) |-> IF y[i] = 1 THEN 1 ELSE -1]

\* the candidates in the order the three loops visit them
StumpCandidates(X) ==
    LET m == Len(X[1])
        OfFeature(fi) ==
            CHOOSE r \in
                { [k \in 1..(2 * Len(thrs)) |->
                      DecisionStump(fi, thrs[(k + 1) \div 2], IF k % 2 = 1 THEN 1 ELSE -1,
                                    Zero)] :
                  thrs \in { CandidateThresholds([i \in 1..Len(X) |-> At(X[i], fi)]) } } :
                TRUE
        RECURSIVE From(_)
        From(fi) == IF fi >= m THEN <<>> ELSE OfFeature(fi) \o From(fi + 1)
    IN  From(0)

\* err of a stump: the weight of the rows it gets wrong
StumpErr(X, y2, w, stump) ==
    RSum(<<>> \o [i \in 1..Len(X) |->
                     IF DecisionStump_predict(stump, X[i]) # y2[i] THEN w[i] ELSE Zero])

\* A slip of BestStump: a candidate that ties with the best replaces it, so
\* the last of the candidates of minimum error is kept.
BestStumpLast(X, y2, w) ==
    CHOOSE r \in
        { IF Len(errs) = 0 THEN None
          ELSE LET k == CHOOSE k \in 1..Len(errs) :
                            /\ \A j \in 1..Len(errs) : ~RLt(errs[j][2], errs[k][2])
                            /\ \A j \in (k + 1)..Len(errs) : RLt(errs[k][2], errs[j][2])
               IN  Some([stump |-> errs[k][1], err |-> errs[k][2]]) :
          errs \in { <<>> \o [k \in 1..Len(cands) |-> <<cands[k], StumpErr(X, y2, w, cands[k])>>] :
                     cands \in { StumpCandidates(X) } } } : TRUE

\* best_stump and best_err after the search: the first candidate (in the
\* order of the loops) that no candidate beats; None when there is no
\* candidate
BestStump(X, y2, w) ==
    CHOOSE r \in
        { IF Len(errs) = 0 THEN None
          ELSE LET k == CHOOSE k \in 1..Len(errs) :
                            /\ \A j \in 1..Len(errs) : ~RLt(errs[j][2], errs[k][2])
                            /\ \A j \in 1..(k - 1) : RLt(errs[k][2], errs[j][2])
               IN  Some([stump |-> errs[k][1], err |-> errs[k][2]]) :
          errs \in { <<>> \o [k \in 1..Len(cands) |-> <<cands[k], StumpErr(X, y2, w, cands[k])>>] :
                     cands \in { StumpCandidates(X) } } } : TRUE

MinErr == Rat(1, 1000000000)
MaxErr == Rat(499999, 1000000)

\* A slip of ClampErr: the error is used as found.
ClampErrNone(err) == err

\* max(1e-9, min(0.499999, best_err))
ClampErr(err) ==
    LET low == IF RLtWide(MaxErr, err) THEN MaxErr ELSE err
    IN  IF RLtWide(low, MinErr) THEN MinErr ELSE low

\* what 0.5 * math.log((1 - err) / err) does: ZeroDivisionError for err = 0,
\* ValueError for a quotient that is not positive, else a finite number
AlphaRaises(err) ==
    IF err.n = 0 THEN "ZeroDivisionError"
    ELSE IF RLe(One, err) \/ err.n < 0 THEN "ValueError"
    ELSE ""

Alpha(err) == [half_log_odds_of |-> err]

AlphaFinite(alpha) ==
    Zero.n < alpha.half_log_odds_of.n /\ RLtWide(alpha.half_log_odds_of, One)

\* the weights after lines 136 to 143, for the stump found with clamped
\* error e: w[i] * exp(-alpha) for a row the stump gets right and
\* w[i] * exp(alpha) for a row it gets wrong, that is w[i] and
\* w[i] * (1 - e) / e in units of exp(-alpha), divided by their sum Z when
\* Z > 0
UpdateWeights(X, y2, w, stump, e) ==
    CHOOSE r \in
        { CHOOSE q \in
              { IF Z.n > 0
                THEN [w |-> <<>> \o [i \in 1..Len(u) |-> RDiv(u[i], Z)], normalized |-> TRUE]
                ELSE [w |-> u, normalized |-> FALSE] : Z \in { RSum(u) } } : TRUE :
          u \in { <<>> \o [i \in 1..Len(X) |->
                             IF DecisionStump_predict(stump, X[i]) = y2[i] THEN w[i]
                             ELSE RMul(w[i], f)] :
                  f \in { RDiv(RSub(One, e), e) } } } : TRUE

AbEntry(a) ==
    [pc |-> "start", round |-> 0, w |-> <<>>, normalized |-> TRUE,
     stumps |-> a.stumps_before, raised |-> "", searched |-> <<>>]

\* A slip of AbStart: the stumps of an earlier fit are kept.
AbStartKeep ==
    /\ ab.pc = "start"
    /\ ab' = IF Len(ab_in.X) = 0 THEN [ab EXCEPT !.pc = "returned"]
             ELSE [ab EXCEPT !.pc = "round",
                             !.w = [i \in 1..Len(ab_in.X) |-> Rat(1, Len(ab_in.X))]]
    /\ UNCHANGED <<ab_in, not_ab>>

\* lines 96 to 103
AbStart ==
    /\ ab.pc = "start"
    /\ ab' = IF Len(ab_in.X) = 0 THEN [ab EXCEPT !.pc = "returned"]
             ELSE [ab EXCEPT !.pc = "round",
                             !.w = [i \in 1..Len(ab_in.X) |-> Rat(1, Len(ab_in.X))],
                             !.stumps = <<>>]
    /\ UNCHANGED <<ab_in, not_ab>>

\* len(unique_vals) at line 116, for each feature of the rows
SearchedThresholds(X) ==
    [f \in 1..Len(X[1]) |->
        Len(CandidateThresholds([i \in 1..Len(X) |-> At(X[i], f - 1)]))]

\* one round that finds a stump: lines 105 to 143
AbRound ==
    /\ ab.pc = "round" /\ ab.round < ab_in.n_rounds
    /\ \E best \in { BestStump(ab_in.X, SignedLabels(ab_in.y), ab.w) } :
        /\ ~IsNone(best)
        /\ \E e \in { ClampErr(Val(best).err) } :
            IF AlphaRaises(e) # ""
            THEN ab' = [ab EXCEPT !.pc = "raised", !.raised = AlphaRaises(e)]
            ELSE \E upd \in { UpdateWeights(ab_in.X, SignedLabels(ab_in.y), ab.w,
                                            Val(best).stump, e) } :
                    ab' = [ab EXCEPT !.round = @ + 1,
                                     !.stumps = Append(@, [Val(best).stump EXCEPT
                                                              !.alpha = Alpha(e)]),
                                     !.w = upd.w,
                                     !.normalized = upd.normalized,
                                     !.searched = SearchedThresholds(ab_in.X)]
    /\ UNCHANGED <<ab_in, not_ab>>

\* `if best_stump is None: break`
AbBreak ==
    /\ ab.pc = "round" /\ ab.round < ab_in.n_rounds
    /\ IsNone(BestStump(ab_in.X, SignedLabels(ab_in.y), ab.w))
    /\ ab' = [ab EXCEPT !.pc = "returned"]
    /\ UNCHANGED <<ab_in, not_ab>>

\* the rounds are done
AbReturn ==
    /\ ab.pc = "round" /\ ab.round >= ab_in.n_rounds
    /\ ab' = [ab EXCEPT !.pc = "returned"]
    /\ UNCHANGED <<ab_in, not_ab>>

NextFit == AbStart \/ AbRound \/ AbBreak \/ AbReturn

MaxRounds == 3     \* most rounds of a fit on free-form rows
MaxRows == 3       \* most rows of a free-form training set

AbCall(X, y, n_rounds) == [X |-> X, y |-> y, n_rounds |-> n_rounds, stumps_before |-> <<>>]

\* rows of one feature with values 1, 2 and 3, every labelling
AbFreeCalls ==
    UNION { { AbCall(X, y, r) :
                X \in [1..n -> [1..1 -> { I(1), I(2), I(3) }]], y \in [1..n -> { 0, 1 }],
                r \in 0..MaxRounds } : n \in 0..MaxRows }

\* two rows of two features
AbTwoFeatureCalls ==
    { AbCall(X, y, r) :
        X \in [1..2 -> [1..2 -> { I(1), I(2) }]], y \in [1..2 -> { 0, 1 }],
        r \in 0..MaxRounds }

\* rows without features; two and four equal rows with half of the labels 1:
\* every stump is wrong on half of the weight
AbFixedCalls ==
    { AbCall(<< <<>>, <<>> >>, <<0, 1>>, 2),
      AbCall(<< <<I(1)>>, <<I(1)>> >>, <<0, 1>>, 1),
      AbCall(<< <<I(1)>>, <<I(1)>>, <<I(1)>>, <<I(1)>> >>, <<0, 1, 1, 0>>, 1) }

InitFit ==
    /\ ab_in \in AbFreeCalls \cup AbTwoFeatureCalls \cup AbFixedCalls
    /\ ab = AbEntry(ab_in)
    /\ IdleBut("ab")

SpecFit == InitFit /\ [][NextFit]_vars

\* C17: after every round of fit the weights are non-negative and sum to 1,
\* and the stump appended in the round has a finite alpha, computed from an
\* error within [1e-9, 0.499999]; no round raises.
C17_WeightsNormalized ==
    ab.pc # "idle" =>
        /\ ab.pc # "raised"
        /\ ab.round >= 1 =>
               /\ ab.normalized
               /\ \A i \in 1..Len(ab.w) : ab.w[i].n >= 0
               /\ RSum(ab.w) = One
               /\ Len(ab.stumps) = ab.round
               /\ \A k \in 1..Len(ab.stumps) :
                      /\ AlphaFinite(ab.stumps[k].alpha)
                      /\ ~RLtWide(ab.stumps[k].alpha.half_log_odds_of, MinErr)
                      /\ ~RLtWide(MaxErr, ab.stumps[k].alpha.half_log_odds_of)

\* two rounds done, and the weights are no longer equal
C17_Witness ==
    /\ ab.pc = "round" /\ ab.round >= 2
    /\ \E i, j \in 1..Len(ab.w) : ab.w[i] # ab.w[j]
    /\ RSum(ab.w) = One

(***************************************************************************)
(* One round of fit on columns of many distinct values.                    *)
(***************************************************************************)
\* n rows of one feature with the values 1..n, each value `times` times
WideRows(n, times) == [i \in 1..(n * times) |-> <<I(((i - 1) \div times) + 1)>>]

\* the labels: the upper half 1; every other row 1; every third row 1
WideLabels(rows, kind) ==
    [i \in 1..rows |->
        IF kind = "half" THEN (IF i > rows \div 2 THEN 1 ELSE 0)
        ELSE IF kind = "parity" THEN i % 2
        ELSE (IF i % 3 = 0 THEN 1 ELSE 0)]

AbWideCalls ==
    { AbCall(WideRows(n, 1), WideLabels(n, kind), 1) :
        n \in { 2, 49, 50, 51, 75, 99, 100, 101, 149, 150 },
        kind \in { "half", "parity", "third" } }
    \cup { AbCall(WideRows(n, 2), WideLabels(2 * n, kind), 1) :
            n \in { 50, 51 }, kind \in { "half", "parity", "third" } }
    \cup { AbCall(<< <<>>, <<>> >>, <<0, 1>>, 1) }

InitFitWide ==
    /\ ab_in \in AbWideCalls
    /\ ab = AbEntry(ab_in)
    /\ IdleBut("ab")

SpecFitWide == InitFitWide /\ [][NextFit]_vars

\* the number of distinct values of feature f (from 1) of the rows
DistinctValues(X, f) == Cardinality({ At(X[i], f - 1) : i \in 1..Len(X) })

\* C20: in a round of fit, at most 50 thresholds are tried for every
\* feature, and with 50 or fewer distinct values every one of them is
\* tried.
C20_AtMostFiftyThresholds ==
    (ab.pc # "idle" /\ ab.round >= 1) =>
        \A f \in 1..Len(ab.searched) :
            /\ ab.searched[f] <= 50
            /\ DistinctValues(ab_in.X, f) <= 50 =>
                   ab.searched[f] = DistinctValues(ab_in.X, f)

(***************************************************************************)
(* TradingStrategy: the calls its operations make on the client.           *)
(***************************************************************************)
ClientCall(op, symbol) == [op |-> op, symbol |-> symbol]

\* the calls of execute_trade for one trade: none when the score is below
\* min_ai_score or in dry-run mode, else the leverage, the entry order and
\* the three stop orders
execute_trade(self, trade) ==
    LET ai_score == IF IsNone(trade.ai_score) THEN One ELSE Val(trade.ai_score)
    IN  IF RLt(ai_score, self.min_ai_score) THEN <<>>
        ELSE IF self.dry_run THEN <<>>
        ELSE << ClientCall("set_leverage", trade.symbol),
                ClientCall("place_order", trade.symbol),
                ClientCall("place_stop_order", trade.symbol),
                ClientCall("place_stop_order", trade.symbol),
                ClientCall("place_stop_order", trade.symbol) >>

\* the calls of execute_all_trades: the trades given when the list is
\* given and not empty, else the trade opportunities of the strategy
RECURSIVE ExecuteEach(_, _)
ExecuteEach(self, trades) ==
    IF trades = <<>> THEN <<>>
    ELSE execute_trade(self, Head(trades)) \o ExecuteEach(self, Tail(trades))

\* trades_to_execute = filtered_trades if filtered_trades else
\* self.trade_opportunities: None and the empty list are both false
TradesToExecute(self, filtered_trades) ==
    IF ~IsNone(filtered_trades) /\ Val(filtered_trades) # <<>>
    THEN Val(filtered_trades) ELSE self.trade_opportunities

execute_all_trades(self, filtered_trades) ==
    ExecuteEach(self, TradesToExecute(self, filtered_trades))

\* results: one entry for each trade handed to execute_trade
ExecuteAllResults(self, filtered_trades) ==
    [k \in 1..Len(TradesToExecute(self, filtered_trades)) |->
        [symbol |-> TradesToExecute(self, filtered_trades)[k].symbol,
         result |-> [of |-> TradesToExecute(self, filtered_trades)[k]]]]

\* next((t for t in self.trade_opportunities if t["symbol"] == symbol), None)
FindTrade(trades, symbol) ==
    LET found == SelectSeq(trades, LAMBDA t : t.symbol = symbol)
    IN  IF found = <<>> THEN None ELSE Some(Head(found))

\* the body of the loop of update_trailing_stops for one position: lines 180
\* to 213; current_price >= entry_price + (target - entry_price) / 2 is
\* tested on the doubles
TrailingStopCalls(self, position) ==
    IF position.total <= 0 THEN <<>>
    ELSE LET trade == FindTrade(self.trade_opportunities, position.symbol)
         IN  IF IsNone(trade) THEN <<>>
             ELSE << ClientCall("get_market_price", position.symbol) >>
                  \o (IF 2 * self.price >= 2 * position.averageOpenPrice
                                            + (Val(trade).target - position.averageOpenPrice)
                      THEN << ClientCall("place_stop_order", position.symbol) >>
                      ELSE <<>>)

RECURSIVE TrailEach(_, _)
TrailEach(self, positions) ==
    IF positions = <<>> THEN <<>>
    ELSE TrailingStopCalls(self, Head(positions)) \o TrailEach(self, Tail(positions))

update_trailing_stops(self) ==
    << ClientCall("get_positions", "") >> \o TrailEach(self, self.positions)

MaxOps == 2        \* most operations called on one strategy

StratEntry == [pc |-> "ready", ops |-> 0, calls |-> <<>>, last |-> None]

StratExecuteTrade ==
    /\ strat.pc = "ready" /\ strat.ops < MaxOps
    /\ \E k \in 1..Len(strat_in.trade_opportunities) :
        strat' = [strat EXCEPT !.ops = @ + 1,
                               !.calls = @ \o execute_trade(strat_in,
                                                            strat_in.trade_opportunities[k])]
    /\ UNCHANGED <<strat_in, not_strat>>

StratExecuteAllTrades ==
    /\ strat.pc = "ready" /\ strat.ops < MaxOps
    /\ \E filtered \in { None, Some(<<>>) }
                       \cup { Some(<<strat_in.trade_opportunities[k]>>) :
                                k \in 1..Len(strat_in.trade_opportunities) }
                       \cup { Some(<<strat_in.trade_opportunities[2],
                                     strat_in.trade_opportunities[1]>>) :
                                k \in 2..Len(strat_in.trade_opportunities) } :
        strat' = [strat EXCEPT !.ops = @ + 1,
                               !.calls = @ \o execute_all_trades(strat_in, filtered),
                               !.last = Some([filtered_trades |-> filtered,
                                              executed |-> TradesToExecute(strat_in, filtered),
                                              results |-> ExecuteAllResults(strat_in,
                                                                            filtered)])]
    /\ UNCHANGED <<strat_in, not_strat>>

StratUpdateTrailingStops ==
    /\ strat.pc = "ready" /\ strat.ops < MaxOps
    /\ strat' = [strat EXCEPT !.ops = @ + 1,
                              !.calls = @ \o update_trailing_stops(strat_in)]
    /\ UNCHANGED <<strat_in, not_strat>>

NextStrategy == StratExecuteTrade \/ StratExecuteAllTrades \/ StratUpdateTrailingStops

Opportunity(symbol, ai_score) ==
    [symbol |-> symbol, entry |-> 100, target |-> 120, stop_loss |-> 90,
     ai_score |-> ai_score]

Position(symbol, total) == [symbol |-> symbol, total |-> total, averageOpenPrice |-> 100]

AiScores == { None, Some(Rat(1, 4)), Some(Rat(3, 4)) }

\* the fields of the strategy, and what the client answers: the positions
\* and the market price
Strategies ==
    { [dry_run |-> d, min_ai_score |-> m, trade_opportunities |-> t, positions |-> p,
       price |-> c] :
        d \in BOOLEAN, m \in { Zero, Rat(1, 2) },
        t \in { <<>> } \cup { <<Opportunity("BTCUSDT", a)>> : a \in AiScores }
              \cup { <<Opportunity("BTCUSDT", a), Opportunity("ETHUSDT", b)>> :
                       a \in AiScores, b \in AiScores },
        p \in { <<>> } \cup { <<Position("BTCUSDT", q)>> : q \in { 0, 2 } }
              \cup { <<Position("SOLUSDT", 2), Position("BTCUSDT", q)>> : q \in { 0, 2 } },
        c \in { 105, 110, 115 } }

InitStrategy ==
    /\ strat_in \in Strategies
    /\ strat = StratEntry
    /\ IdleBut("strat")

SpecStrategy == InitStrategy /\ [][NextStrategy]_vars

OrderOps == { "place_order", "place_stop_order", "set_leverage" }

\* C18: a strategy constructed with dry_run = True never calls place_order,
\* place_stop_order or set_leverage on the client.
C18_DryRunPlacesNoOrder ==
    (strat.pc # "idle" /\ strat_in.dry_run) =>
        \A k \in 1..Len(strat.calls) : strat.calls[k].op \notin OrderOps

(***************************************************************************)
(* LogisticModel.fit, on rows whose scores are 0 or beyond 35 in size: the *)
(* sigmoid of these is 0.5, 0.0 or 1.0, and the updates are exact.  A run  *)
(* that meets another score is followed no further (beyond).               *)
(***************************************************************************)
\* int(k * 0.6180339887498949), for k below 2000
GoldenFloor(k) == (k * 618034) \div 1000000

\* A slip of Swap: the entry at j is copied to i and stays at j.
SwapCopy(seq, i, j) == [seq EXCEPT ![i + 1] = seq[j + 1]]

\* seq with the entries at the indices i and j (from 0) exchanged
Swap(seq, i, j) == [seq EXCEPT ![i + 1] = seq[j + 1], ![j + 1] = seq[i + 1]]

\* the shuffle of one epoch: for i in range(n - 1, 0, -1)
RECURSIVE LgShuffle(_, _)
LgShuffle(idxs, i) ==
    IF i < 1 THEN idxs
    ELSE LgShuffle(Swap(idxs, i, GoldenFloor(i + 1) % (i + 1)), i - 1)

\* the value of a probability that is a rational number
ProbaValue(p) ==
    IF p.exact THEN Some(p.v)
    ELSE IF p.v = Zero THEN Some(Rat(1, 2))
    ELSE None

\* the update for row i (from 0): lines 38 to 46
LgRow(m, a, i) ==
    CHOOSE r \in
        { IF IsNone(p) THEN [m EXCEPT !.beyond = TRUE]
          ELSE LET err == RSub(Val(p), I(At(a.y, i)))
               IN  [m EXCEPT
                      !.weights =
                          [k \in 1..Len(m.weights) |->
                              RSub(m.weights[k],
                                   RMul(a.lr, RAdd(RMul(err, At(a.X, i)[k]),
                                                   RMul(a.l2, m.weights[k]))))],
                      !.bias = RSub(m.bias, RMul(a.lr, err))] :
          p \in { ProbaValue(LogisticModel_predict_proba_one(m, At(a.X, i))) } } : TRUE

\* `for i in idxs`, from position pos (from 1) on
RECURSIVE LgRows(_, _, _, _)
LgRows(m, a, idxs, pos) ==
    IF pos > Len(idxs) \/ m.beyond THEN m
    ELSE CHOOSE r \in { LgRows(next, a, idxs, pos + 1) :
                          next \in { LgRow(m, a, idxs[pos]) } } : TRUE

\* `for _ in range(epochs)`, with e epochs to go; idxs is kept from one epoch
\* to the next
RECURSIVE LgEpochs(_, _, _, _)
LgEpochs(m, a, idxs, e) ==
    IF e <= 0 \/ m.beyond THEN m
    ELSE CHOOSE r \in
             { LgEpochs(LgRows(m, a, order, 1), a, order, e - 1) :
                 order \in { IF a.shuffle THEN LgShuffle(idxs, Len(idxs) - 1) ELSE idxs } } :
             TRUE

\* fit, from the weights and the bias the object has: nothing sets them
\* before the loops
LogisticModel_fit(m, a) ==
    IF Len(a.X) = 0 THEN m
    ELSE LgEpochs(m, a, [k \in 1..Len(a.X) |-> k - 1], a.epochs)

\* LogisticModel(n_features, lr, l2)
LogisticModel_init(a) ==
    [weights |-> [k \in 1..a.n_features |-> Zero], bias |-> Zero, lr |-> a.lr, l2 |-> a.l2,
     beyond |-> FALSE]

MaxFits == 2       \* most calls of fit on one object

LgEntry(a) == [pc |-> "ready", fits |-> 0, model |-> LogisticModel_init(a)]

\* one call of fit, with the same arguments every time
LgFit ==
    /\ lg.pc = "ready" /\ lg.fits < MaxFits
    /\ \E m \in { LogisticModel_fit(lg.model, lg_in) } :
        lg' = [lg EXCEPT !.fits = @ + 1, !.model = m,
                         !.pc = IF m.beyond THEN "beyond" ELSE "ready"]
    /\ UNCHANGED <<lg_in, not_lg>>

NextLogistic == LgFit

\* one and two rows of one feature of size 1000, every labelling; the
\* default lr without penalty, and lr = 0.5 with l2 = 1
LgCalls ==
    UNION { { [n_features |-> 1, lr |-> h[1], l2 |-> h[2], X |-> X, y |-> y,
               epochs |-> e, shuffle |-> sh] :
                X \in [1..n -> { <<I(1000)>>, <<I(-1000)>> }], y \in [1..n -> { 0, 1 }],
                h \in { <<Rat(1, 20), Zero>>, <<Rat(1, 2), One>> },
                e \in { 1, 2 }, sh \in BOOLEAN } : n \in 0..2 }

InitLogistic ==
    /\ lg_in \in LgCalls
    /\ lg = LgEntry(lg_in)
    /\ IdleBut("lg")

SpecLogistic == InitLogistic /\ [][NextLogistic]_vars

\* C19: after every call of fit the weights and the bias are those of one
\* call of fit with the same arguments on a fresh object.
C19_FitStartsFromZero ==
    (lg.pc = "ready" /\ lg.fits >= 1) =>
        lg.model = LogisticModel_fit(LogisticModel_init(lg_in), lg_in)

(***************************************************************************)
(* Claims about the rounds of AdaBoostStumps.fit.                          *)
(***************************************************************************)
\* the thresholds searched for feature fi, as a set
ThresholdsOf(X, fi) ==
    LET t == CandidateThresholds([i \in 1..Len(X) |-> At(X[i], fi)])
    IN  { t[k] : k \in 1..Len(t) }

\* a comes before b in the stated order: feature index ascending, then
\* threshold ascending, then polarity +1 before -1
VisitedBefore(a, b) ==
    \/ a.feature_idx < b.feature_idx
    \/ a.feature_idx = b.feature_idx /\ RLt(a.threshold, b.threshold)
    \/ a.feature_idx = b.feature_idx /\ a.threshold = b.threshold
         /\ a.polarity = 1 /\ b.polarity = -1

\* the stump s is the stated choice under the weights w: no searched
\* candidate has a smaller weighted error, and none of the same error comes
\* before it
IsStatedChoice(X, y, w, s) ==
    LET y2 == SignedLabels(y)
        chosen == DecisionStump(s.feature_idx, s.threshold, s.polarity, Zero)
    IN  \E e \in { StumpErr(X, y2, w, chosen) } :
            /\ s.threshold \in ThresholdsOf(X, s.feature_idx)
            /\ \A fi \in 0..(Len(X[1]) - 1) :
                 \A thr \in ThresholdsOf(X, fi) :
                   \A pol \in { 1, -1 } :
                     \E c \in { DecisionStump(fi, thr, pol, Zero) } :
                       \E ec \in { StumpErr(X, y2, w, c) } :
                         /\ ~RLt(ec, e)
                         /\ (ec = e /\ c # chosen) => VisitedBefore(chosen, c)

\* C21: the stump a round appends has the minimum weighted error, under the
\* weights the round started with, over every searched (feature, threshold,
\* polarity), and is the first of the candidates of that error in the order
\* feature ascending, threshold ascending, polarity +1 before -1.
C21_MinErrorFirstFound ==
    [][(ab.pc = "round" /\ ab'.round = ab.round + 1) =>
          IsStatedChoice(ab_in.X, ab_in.y, ab.w, ab'.stumps[Len(ab'.stumps)])]_vars

\* the first round is done on rows where another candidate has the error
\* of the stump chosen
C21_Witness ==
    /\ ab.pc = "round" /\ ab.round = 1 /\ Len(ab_in.X) >= 2
    /\ LET y2 == SignedLabels(ab_in.y)
           w == [i \in 1..Len(ab_in.X) |-> Rat(1, Len(ab_in.X))]
           s == ab.stumps[1]
           chosen == DecisionStump(s.feature_idx, s.threshold, s.polarity, Zero)
       IN  /\ IsStatedChoice(ab_in.X, ab_in.y, w, s)
           /\ \E fi \in 0..(Len(ab_in.X[1]) - 1) :
                \E thr \in ThresholdsOf(ab_in.X, fi) :
                  \E pol \in { 1, -1 } :
                     /\ DecisionStump(fi, thr, pol, Zero) # chosen
                     /\ StumpErr(ab_in.X, y2, w, DecisionStump(fi, thr, pol, Zero))
                          = StumpErr(ab_in.X, y2, w, chosen)

(***************************************************************************)
(* fit on an object that already holds stumps: of an earlier fit, or read  *)
(* by from_json from a document with more stumps than n_rounds.            *)
(***************************************************************************)
\* a stump of an earlier life of the object; no row has a feature 7
OldStump == DecisionStump(7, I(1), 1, Alpha(Rat(1, 4)))

AbRefitCalls ==
    { [AbCall(d[1], d[2], r) EXCEPT !.stumps_before = Repeat(<<OldStump>>, k)] :
        d \in { << <<>>, <<>> >>,
                << << <<I(1)>>, <<I(2)>> >>, <<0, 1>> >>,
                << << <<I(1)>>, <<I(1)>> >>, <<0, 1>> >>,
                << << <<>>, <<>> >>, <<0, 1>> >> },
        r \in 0..MaxRounds, k \in 1..(MaxRounds + 2) }

InitFitAny ==
    /\ ab_in \in AbTwoFeatureCalls \cup AbFixedCalls \cup AbRefitCalls
    /\ ab = AbEntry(ab_in)
    /\ IdleBut("ab")

\* the statements of fit follow one another: a call that can go on does
SpecFitLive == InitFitAny /\ [][NextFit]_vars /\ WF_vars(NextFit)

HasFeatures(X) == Len(X) > 0 /\ Len(X[1]) > 0

\* what holds of the rounds whatever the object held before the call
RoundsBounded ==
    /\ ab.pc # "raised"
    /\ ab.round <= ab_in.n_rounds
    /\ ab.pc = "returned" =>
           /\ ab.round < ab_in.n_rounds => ~HasFeatures(ab_in.X)
           /\ HasFeatures(ab_in.X) =>
                  /\ Len(ab.stumps) = ab_in.n_rounds
                  /\ \A k \in 1..Len(ab.stumps) : ab.stumps[k] # OldStump

\* C22 as stated: fit returns, after at most n_rounds rounds, stopping early
\* only without features, with at most n_rounds stumps, and with exactly
\* n_rounds stumps of this call for rows with a feature.
C22_TerminatesWithinRounds ==
    /\ [](RoundsBounded /\ (ab.pc = "returned" => Len(ab.stumps) <= ab_in.n_rounds))
    /\ <>(ab.pc = "returned")

\* C22 amended: the count of stumps at the end is at most n_rounds when X
\* is not empty; on an empty X fit returns at once and the stumps are those
\* the object held before the call.
C22_TerminatesWithinRoundsNonEmpty ==
    /\ [](/\ RoundsBounded
          /\ ab.pc = "returned" =>
                 IF Len(ab_in.X) > 0 THEN Len(ab.stumps) <= ab_in.n_rounds
                 ELSE ab.stumps = ab_in.stumps_before)
    /\ <>(ab.pc = "returned")

\* a refit of rows with a feature has returned: the old stumps are gone
C22_Witness ==
    /\ ab.pc = "returned"
    /\ HasFeatures(ab_in.X) /\ Len(ab_in.stumps_before) > ab_in.n_rounds
    /\ ab_in.n_rounds >= 2
    /\ Len(ab.stumps) = ab_in.n_rounds

(***************************************************************************)
(* backtest_grid from the candles to the call of the simulator, with the   *)
(* examples and the closes named by the symbol and the candle they come    *)
(* from: <<k, i>> is candle i of symbol k.                                 *)
(***************************************************************************)
MaxCandles == 47   \* most candles of one symbol in the split machine

\* the candles whose examples build_dataset appends, in order, for a
\* symbol with n candles
ExampleCandles(k, n, window, horizon) ==
    IF n < window + horizon + 1 THEN <<>>
    ELSE [j \in 1..(BdRange(n, window, horizon).stop - BdRange(n, window, horizon).first)
            |-> <<k, window + j - 1>>]

\* the candles of [c["close"] for c in candles][window:len(candles) - horizon]
CloseCandles(k, n, window, horizon) ==
    PySlice([j \in 1..n |-> <<k, j - 1>>], window, n - horizon)

SplEntry ==
    [pc |-> "symbols", k |-> 0, X_all |-> <<>>, closes_all |-> <<>>, raised |-> "",
     split |-> 0, X_train |-> <<>>, X_test |-> <<>>, closes_test |-> <<>>, proba |-> <<>>,
     trade |-> None]

\* one turn of `for sym in symbols`: lines 106 to 113
SplSymbol ==
    /\ drv.pc = "symbols"
    /\ drv.k < Len(drv_in.n_candles)
    /\ \E X \in { ExampleCandles(drv.k + 1, drv_in.n_candles[drv.k + 1], drv_in.window,
                                 drv_in.horizon) },
          closes \in { CloseCandles(drv.k + 1, drv_in.n_candles[drv.k + 1], drv_in.window,
                                    drv_in.horizon) } :
        \E m \in { Min2(Len(X), Len(closes)) } :
            drv' = [drv EXCEPT !.k = @ + 1,
                               !.X_all = @ \o PySlice(X, 0, m),
                               !.closes_all = @ \o PySlice(closes, 0, m)]
    /\ UNCHANGED <<drv_in, not_drv>>

\* lines 115 to 122: the check of X_all and the slices at split
SplSplit ==
    /\ drv.pc = "symbols"
    /\ drv.k >= Len(drv_in.n_candles)
    /\ drv' = IF NoData(drv.X_all)
              THEN [drv EXCEPT !.pc = "raised", !.raised = "RuntimeError"]
              ELSE [drv EXCEPT !.pc = "fit",
                               !.split = SplitIndex(Len(drv.X_all)),
                               !.X_train = PySlice(drv.X_all, 0, SplitIndex(Len(drv.X_all))),
                               !.X_test = PySlice(drv.X_all, SplitIndex(Len(drv.X_all)),
                                                  Len(drv.X_all)),
                               !.closes_test = PySlice(drv.closes_all,
                                                       SplitIndex(Len(drv.X_all)),
                                                       Len(drv.closes_all))]
    /\ UNCHANGED <<drv_in, not_drv>>

\* lines 123 to 127: the fit on X_train and a probability for each row of
\* X_test
SplPredict ==
    /\ drv.pc = "fit"
    /\ drv' = [drv EXCEPT !.pc = "grid",
                          !.proba = [j \in 1..Len(drv.X_test) |-> [of |-> drv.X_test[j]]]]
    /\ UNCHANGED <<drv_in, not_drv>>

\* a trade of _simulate_pnl(proba, closes_test, horizon=horizon, ...) at an
\* index i whose exit price exists (lines 31 to 35); whether proba[i] reaches
\* the threshold is up to score_grid, which the caller supplies (with a
\* threshold of 0.0 every index is eligible)
SplTrade ==
    /\ drv.pc = "grid"
    /\ \E i \in 0..(Len(drv.proba) - 1) :
        /\ ~(i + drv_in.horizon >= Len(drv.closes_test))
        /\ drv' = [drv EXCEPT !.pc = "traded",
                              !.trade = Some([i |-> i, entry |-> At(drv.closes_test, i),
                                              exitp |-> At(drv.closes_test,
                                                           i + drv_in.horizon)])]
    /\ UNCHANGED <<drv_in, not_drv>>

NextSplit == SplSymbol \/ SplSplit \/ SplPredict \/ SplTrade

SplCalls ==
    { [n_candles |-> <<n1, n2>>, window |-> 1, horizon |-> 1] :
        n1 \in 0..MaxCandles, n2 \in 0..MaxCandles }

InitSplit ==
    /\ drv_in \in SplCalls
    /\ drv = SplEntry
    /\ IdleBut("drv")

SpecSplit == InitSplit /\ [][NextSplit]_vars

\* the parts are the dataset cut in two, in order, and the probabilities
\* and the prices handed to the simulator go example by example
SplitInOrder ==
    drv.pc \in { "grid", "traded" } =>
        /\ drv.X_train \o drv.X_test = drv.X_all
        /\ Len(drv.X_train) = drv.split
        /\ Len(drv.proba) = Len(drv.closes_test)
        /\ \A j \in 1..Len(drv.proba) : drv.proba[j].of = drv.closes_test[j]

\* C23: backtest_grid trains on exactly the first floor(0.7 * N) of the N
\* examples, computes probabilities for exactly the rest in their order, the
\* two parts are disjoint and cover the dataset, and the probabilities and
\* the prices handed to the simulator have the same length, entry k of both
\* belonging to the same example.
C23_ChronologicalSplit ==
    drv.pc \in { "grid", "traded" } =>
        /\ SplitInOrder
        /\ Len(drv.X_train) = (7 * Len(drv.X_all)) \div 10

\* the stake as stated, from the P&L of the trades before this one
StatedStake(a, pnl_before) ==
    IF a.risk_mode = "pct"
    THEN RMul(RMul(RAdd(a.starting_balance, RSum(pnl_before)),
                   RDiv(a.risk_per_trade, I(100))), a.leverage)
    ELSE RMul(a.risk_per_trade, a.leverage)

\* C24: the stake of every trade of _simulate_pnl is, in risk mode 'pct',
\* (starting_balance plus the P&L of all earlier trades) * risk_per_trade / 100
\* * leverage, and in risk mode 'usd' risk_per_trade * leverage whatever the
\* equity: it is the stake the code computes, and the P&L recorded for the
\* trade is the one of that stake.
C24_StakeByMode ==
    [][(sim.pc = "loop" /\ sim'.pc # "raised" /\ sim'.trades = sim.trades + 1) =>
          \E stake \in { StatedStake(sim_in, sim.pnl_list) } :
              /\ StakeUsd(sim_in, sim.equity) = stake
              /\ sim'.pnl_list[Len(sim'.pnl_list)] =
                     RSub(RMul(stake, TradeReturn(sim_in, sim.i)),
                          SimFees(stake, FeeRate(sim_in)))]_vars

\* two trades in percent mode, the second with a stake other than the first
C24_Witness ==
    /\ sim_in.risk_mode = "pct" /\ sim.trades = 2
    /\ sim.pnl_list[1].n # 0 /\ sim.pnl_list[2].n # 0
    /\ StatedStake(sim_in, <<sim.pnl_list[1]>>) # StatedStake(sim_in, <<>>)

\* C25: with max_trades set, the count of trades of _simulate_pnl is never
\* above max_trades (none is taken when max_trades = 0); once the count has
\* reached the cap a signal below the threshold is passed over and the first
\* eligible signal ends the loop without a trade.
C25_TradeCap ==
    [][~IsNone(sim_in.max_trades) =>
          /\ sim.trades <= Val(sim_in.max_trades)
          /\ sim'.trades <= Val(sim_in.max_trades)
          /\ (/\ sim.pc = "loop" /\ sim.i < Len(sim_in.preds)
              /\ sim.trades >= Val(sim_in.max_trades)) =>
                 IF RLe(sim_in.threshold, At(sim_in.preds, sim.i))
                 THEN sim' = [sim EXCEPT !.pc = "after_loop"]
                 ELSE sim' = [sim EXCEPT !.i = @ + 1]
          /\ sim.pc = "after_loop" =>
                 /\ sim'.pc = "returned"
                 /\ Val(sim'.result).trades = sim.trades]_vars

\* the cap of two trades was reached and the next eligible signal, whose exit
\* price exists, ended the loop
C25_Witness ==
    /\ sim.pc = "after_loop" /\ sim_in.max_trades = Some(2) /\ sim.trades = 2
    /\ sim.i < Len(sim_in.preds) /\ ~Skips(sim_in, sim) /\ ~PastEnd(sim_in, sim)
    /\ IsNone(sim_in.dd_stop_pct)

\* an eligible signal with a cap of no trade
CapZeroStops ==
    /\ sim.pc = "after_loop" /\ sim_in.max_trades = Some(0) /\ sim.trades = 0
    /\ sim.i < Len(sim_in.preds) /\ ~Skips(sim_in, sim) /\ ~PastEnd(sim_in, sim)

\* C26: every trade simulated by backtest_grid enters and exits on closes of
\* one instrument, the exit being the close horizon candles after the entry
\* in the series of that instrument.
C26_TradesWithinInstrument ==
    drv.pc = "traded" =>
        /\ Val(drv.trade).entry[1] = Val(drv.trade).exitp[1]
        /\ Val(drv.trade).exitp[2] = Val(drv.trade).entry[2] + drv_in.horizon

\* the ledger of the locals st of a call a
Ledger(a, st) ==
    /\ st.equity = RAdd(a.starting_balance, RSum(st.pnl_list))
    /\ st.trades = Len(st.pnl_list)
    /\ st.wins <= st.trades
    /\ RLe(st.equity, st.peak_equity)
    /\ RLe(Zero, st.max_dd_abs) /\ RLe(Zero, st.max_dd_pct)

\* C27: after every trade of _simulate_pnl the equity is starting_balance
\* plus the P&Ls recorded, trades counts them, wins <= trades, the peak of
\* the equity is never below the equity and never decreases, the two maximum
\* drawdowns are never negative and never decrease; and the record returned
\* has total_pnl = final_equity - starting_balance, 0 <= win_rate <= 1 and
\* worst_trade <= best_trade.
C27_LedgerConsistent ==
    [][/\ Ledger(sim_in, sim) /\ Ledger(sim_in, sim')
       /\ RLe(sim.peak_equity, sim'.peak_equity)
       /\ RLe(sim.max_dd_abs, sim'.max_dd_abs)
       /\ RLe(sim.max_dd_pct, sim'.max_dd_pct)
       /\ sim'.pc = "returned" =>
              \E r \in { Val(sim'.result) } :
                  /\ r.total_pnl = RSub(r.final_equity, sim_in.starting_balance)
                  /\ RLe(Zero, r.win_rate) /\ RLe(r.win_rate, One)
                  /\ RLe(r.worst_trade, r.best_trade)]_vars

\* a run returned after a winning and a losing trade, below its peak
C27_Witness ==
    /\ sim.pc = "returned" /\ sim.trades >= 2
    /\ sim.wins >= 1 /\ sim.wins < sim.trades
    /\ RLt(sim.equity, sim.peak_equity) /\ RLt(sim_in.starting_balance, sim.peak_equity)
    /\ RLt(Zero, sim.max_dd_pct)
    /\ RLt(Val(sim.result).worst_trade, Val(sim.result).best_trade)

(***************************************************************************)
(* LogisticModel.fit statement by statement: the entry, the shuffle of an  *)
(* epoch, the visit of one row, the end of an epoch.  The weights are      *)
(* followed as long as the scores met are 0 or beyond 35 in size.          *)
(***************************************************************************)
MaxShuffleRows == 5   \* most rows of a fit followed row by row
MaxEpochs == 3        \* most epochs of a fit followed row by row

ShEntry(a) ==
    [pc |-> "entry", epoch |-> 0, idxs |-> <<>>, pos |-> 0, visited |-> <<>>,
     model |-> LogisticModel_init(a)]

\* lines 27 to 30
ShEnter ==
    /\ lg.pc = "entry"
    /\ lg' = IF Len(lg_in.X) = 0 THEN [lg EXCEPT !.pc = "returned"]
             ELSE [lg EXCEPT !.pc = "epoch", !.idxs = [k \in 1..Len(lg_in.X) |-> k - 1]]
    /\ UNCHANGED <<lg_in, not_lg>>

\* the head of an epoch: lines 31 to 36
ShEpoch ==
    /\ lg.pc = "epoch" /\ lg.epoch < lg_in.epochs
    /\ lg' = [lg EXCEPT !.pc = "rows", !.pos = 0, !.visited = <<>>,
                        !.idxs = IF lg_in.shuffle THEN LgShuffle(@, Len(@) - 1) ELSE @]
    /\ UNCHANGED <<lg_in, not_lg>>

\* one turn of `for i in idxs`: lines 37 to 46
ShVisit ==
    /\ lg.pc = "rows" /\ lg.pos < Len(lg.idxs)
    /\ \E i \in { lg.idxs[lg.pos + 1] } :
        lg' = [lg EXCEPT !.pos = @ + 1,
                         !.visited = Append(@, i),
                         !.model = IF @.beyond THEN @ ELSE LgRow(@, lg_in, i)]
    /\ UNCHANGED <<lg_in, not_lg>>

\* `for i in idxs` is over
ShEpochEnd ==
    /\ lg.pc = "rows" /\ lg.pos >= Len(lg.idxs)
    /\ lg' = [lg EXCEPT !.pc = "epoch", !.epoch = @ + 1]
    /\ UNCHANGED <<lg_in, not_lg>>

\* `for _ in range(epochs)` is over
ShReturn ==
    /\ lg.pc = "epoch" /\ lg.epoch >= lg_in.epochs
    /\ lg' = [lg EXCEPT !.pc = "returned"]
    /\ UNCHANGED <<lg_in, not_lg>>

NextShuffle == ShEnter \/ ShEpoch \/ ShVisit \/ ShEpochEnd \/ ShReturn

\* rows of one feature of size 1000 with the labels 0, 1, 0, ... or 1, 0, 1, ...
ShCalls ==
    { [n_features |-> 1, lr |-> Rat(1, 20), l2 |-> Zero,
       X |-> [k \in 1..n |-> <<I(IF k % 2 = 1 THEN 1000 ELSE -1000)>>],
       y |-> [k \in 1..n |-> (k + first) % 2],
       epochs |-> e, shuffle |-> sh] :
        n \in 0..MaxShuffleRows, first \in { 0, 1 }, e \in 0..MaxEpochs, sh \in BOOLEAN }

InitShuffle ==
    /\ lg_in \in ShCalls
    /\ lg = ShEntry(lg_in)
    /\ IdleBut("lg")

SpecShuffle == InitShuffle /\ [][NextShuffle]_vars

\* seq holds each of 0..n-1 once
IsPermutation(seq, n) ==
    /\ Len(seq) = n
    /\ \A v \in 0..(n - 1) : Cardinality({ k \in 1..n : seq[k] = v }) = 1

\* the order of the rows in epoch number e (from 1) for n rows, by the
\* positions the shuffle exchanges: position i with int((i + 1) * 0.618...)
\* mod (i + 1), for i from n - 1 down to 1, e times over
RECURSIVE StatedOrder(_, _)
StatedOrder(n, e) ==
    IF e = 0 THEN [k \in 1..n |-> k - 1]
    ELSE LET RECURSIVE Down(_, _)
             Down(seq, i) ==
                 IF i < 1 THEN seq
                 ELSE LET j == (((i + 1) * 618034) \div 1000000) % (i + 1)
                      IN  Down([k \in 1..n |->
                                   IF k = i + 1 THEN seq[j + 1]
                                   ELSE IF k = j + 1 THEN seq[i + 1] ELSE seq[k]], i - 1)
         IN  Down(StatedOrder(n, e - 1), n - 1)

\* C28: in LogisticModel.fit with shuffle the index list is a permutation of
\* 0..n-1 after the shuffle of every epoch, the shuffles compose from epoch
\* to epoch, every row is visited exactly once in each epoch, and the order
\* depends on n and the number of the epoch only.
C28_ShuffleKeepsPermutation ==
    (lg.pc \in { "epoch", "rows" } /\ lg_in.shuffle) =>
        /\ IsPermutation(lg.idxs, Len(lg_in.X))
        /\ lg.idxs = StatedOrder(Len(lg_in.X),
                                 IF lg.pc = "rows" THEN lg.epoch + 1 ELSE lg.epoch)
        /\ lg.pc = "rows" => lg.visited = SubSeq(lg.idxs, 1, lg.pos)
        /\ (lg.pc = "epoch" /\ lg.epoch > 0) =>
               (lg.visited = lg.idxs /\ IsPermutation(lg.visited, Len(lg_in.X)))

\* the third epoch of five rows is over; its order is neither that of the
\* rows nor that of the first epoch
C28_Witness ==
    /\ lg.pc = "epoch" /\ lg.epoch = 3 /\ lg_in.shuffle /\ Len(lg_in.X) = 5
    /\ lg.visited # StatedOrder(5, 0) /\ lg.visited # StatedOrder(5, 1)
    /\ lg.visited = <<0, 2, 3, 4, 1>>

(***************************************************************************)
(* RiskManager.apply_risk_filters, one action for the statements before    *)
(* the loop, one per turn of the loop and one for the return.  The client  *)
(* answers the positions and the balance.                                  *)
(***************************************************************************)
MaxTrades == 3     \* most trade opportunities handed to the risk manager

\* confidence_scores.get(x["confidence"], 0)
ConfidenceScore(c) ==
    IF c = "High" THEN 3
    ELSE IF c = "Medium-High" THEN 2
    ELSE IF c = "Medium" THEN 1
    ELSE 0

\* sorted(trade_opportunities, key=..., reverse=True): the higher score
\* first, trades of one score in the order they had
SortedTrades(trades) ==
    LET Before(j, k) ==
            \/ ConfidenceScore(trades[j].confidence) > ConfidenceScore(trades[k].confidence)
            \/ /\ ConfidenceScore(trades[j].confidence) = ConfidenceScore(trades[k].confidence)
               /\ j < k
        Place(k) == Cardinality({ j \in 1..Len(trades) : Before(j, k) }) + 1
    IN  [p \in 1..Len(trades) |-> trades[CHOOSE k \in 1..Len(trades) : Place(k) = p]]

\* count_active_positions
count_active_positions(positions) ==
    Cardinality({ k \in 1..Len(positions) : positions[k] > 0 })

\* calculate_max_risk_amount
calculate_max_risk_amount(rm) == RMul(rm.balance, RDiv(rm.max_risk_percent, I(100)))

\* abs(trade["entry"] - trade["stop_loss"]) / trade["entry"] * 6.0
RiskAmount(trade) == RMul(Rat(Abs(trade.entry - trade.stop_loss), trade.entry), I(6))

\* A slip of Accepts: one trade more than there are slots.
AcceptsOneMore(total_risk, risk_amount, max_risk, n, available_slots) ==
    RLe(RAdd(total_risk, risk_amount), max_risk) /\ n <= available_slots

\* total_risk + risk_amount <= max_risk and len(filtered_trades) < available_slots
Accepts(total_risk, risk_amount, max_risk, n, available_slots) ==
    RLe(RAdd(total_risk, risk_amount), max_risk) /\ n < available_slots

RmEntry ==
    [pc |-> "entry", available_slots |-> 0, sorted_trades |-> <<>>, max_risk |-> Zero,
     total_risk |-> Zero, k |-> 0, filtered_trades |-> <<>>, considered |-> <<>>]

\* lines 70 to 93
RmStart ==
    /\ strat.pc = "entry"
    /\ \E slots \in { strat_in.max_positions - count_active_positions(strat_in.positions) } :
        strat' = IF slots <= 0
                 THEN [strat EXCEPT !.pc = "returned", !.available_slots = slots]
                 ELSE [strat EXCEPT !.pc = "loop", !.available_slots = slots,
                                    !.sorted_trades = SortedTrades(strat_in.trade_opportunities),
                                    !.max_risk = calculate_max_risk_amount(strat_in)]
    /\ UNCHANGED <<strat_in, not_strat>>

\* one turn of `for trade in sorted_trades`: lines 95 to 102
RmConsider ==
    /\ strat.pc = "loop" /\ strat.k < Len(strat.sorted_trades)
    /\ \E trade \in { strat.sorted_trades[strat.k + 1] } :
        strat' = IF Accepts(strat.total_risk, RiskAmount(trade), strat.max_risk,
                            Len(strat.filtered_trades), strat.available_slots)
                 THEN [strat EXCEPT !.k = @ + 1,
                                    !.considered = Append(@, trade),
                                    !.filtered_trades = Append(@, trade),
                                    !.total_risk = RAdd(@, RiskAmount(trade))]
                 ELSE [strat EXCEPT !.k = @ + 1, !.considered = Append(@, trade)]
    /\ UNCHANGED <<strat_in, not_strat>>

\* line 104
RmReturn ==
    /\ strat.pc = "loop" /\ strat.k >= Len(strat.sorted_trades)
    /\ strat' = [strat EXCEPT !.pc = "returned"]
    /\ UNCHANGED <<strat_in, not_strat>>

NextRisk == RmStart \/ RmConsider \/ RmReturn

\* trades named by their place in the list, with an entry of 100 and a stop
\* at 95 or at 50: a risk amount of 0.3 or of 3
RmTradeLists ==
    UNION { { [k \in 1..n |-> [symbol |-> k, confidence |-> c[k], entry |-> 100,
                               stop_loss |-> s[k]]] :
                c \in [1..n -> { "High", "Medium", "Low" }], s \in [1..n -> { 95, 50 }] } :
            n \in 0..MaxTrades }

\* a balance of 0, 100 or 200 at 2 percent; one or two positions allowed;
\* no position to three positions held, and a closed one
RmCalls ==
    { [trade_opportunities |-> t, positions |-> p, balance |-> I(b),
       max_risk_percent |-> I(2), max_positions |-> mp] :
        t \in RmTradeLists, b \in { 0, 100, 200 }, mp \in { 1, 2 },
        p \in { <<>>, <<0, 1>>, <<1, 1>>, <<1, 1, 1>> } }

InitRisk ==
    /\ strat_in \in RmCalls
    /\ strat = RmEntry
    /\ IdleBut("strat")

SpecRisk == InitRisk /\ [][NextRisk]_vars

\* the entries of seq are entries of from, each taken at most once
IsSubList(seq, from) ==
    \A k \in 1..Len(seq) :
        /\ \E j \in 1..Len(from) : from[j] = seq[k]
        /\ \A j \in 1..Len(seq) : seq[j] = seq[k] => j = k

\* what the list returned respects, but for the count of positions
RiskLimitsKept ==
    /\ IsSubList(strat.filtered_trades, strat_in.trade_opportunities)
    /\ strat.available_slots <= 0 => strat.filtered_trades = <<>>
    /\ Len(strat.filtered_trades) <= Max2(0, strat.available_slots)
    /\ RLe(RSum([k \in 1..Len(strat.filtered_trades) |->
                    RiskAmount(strat.filtered_trades[k])]),
           calculate_max_risk_amount(strat_in))
    /\ \A a \in 1..Len(strat.considered) : \A b \in a..Len(strat.considered) :
           ConfidenceScore(strat.considered[a].confidence)
               >= ConfidenceScore(strat.considered[b].confidence)
    /\ (strat.pc = "returned" /\ strat.available_slots > 0) =>
           /\ Len(strat.considered) = Len(strat_in.trade_opportunities)
           /\ IsSubList(strat.considered, strat_in.trade_opportunities)

\* C29 as stated: the list returned holds given opportunities, at most
\* max_positions - active of them and none when that is <= 0, so that
\* active + accepted <= max_positions; the risk amounts accepted sum to at
\* most balance * max_risk_percent / 100; the trades are considered in
\* non-increasing order of confidence.
C29_RiskLimits ==
    strat.pc # "entry" =>
        /\ RiskLimitsKept
        /\ count_active_positions(strat_in.positions) + Len(strat.filtered_trades)
               <= strat_in.max_positions

\* C29 amended: active + accepted <= max_positions is claimed only when the
\* active positions are not already more than max_positions.
C29_RiskLimitsWithinSlots ==
    strat.pc # "entry" =>
        /\ RiskLimitsKept
        /\ count_active_positions(strat_in.positions) <= strat_in.max_positions =>
               count_active_positions(strat_in.positions) + Len(strat.filtered_trades)
                   <= strat_in.max_positions

\* a trade was accepted, the next was passed over for its risk and a later
\* one of lower confidence accepted; the list given was not in the order of
\* confidence
C29_Witness ==
    /\ strat.pc = "returned" /\ Len(strat.considered) = 3
    /\ strat.filtered_trades = <<strat.considered[1], strat.considered[3]>>
    /\ strat.sorted_trades # strat_in.trade_opportunities
    /\ count_active_positions(strat_in.positions) = 0 /\ strat_in.max_positions = 2

\* C30: a call of execute_all_trades with a filtered list executes exactly
\* the trades of that list, in its order, with one result for each; the
\* trade opportunities of the strategy are executed only by a call without a
\* filtered list.
C30_FilteredListExecuted ==
    (strat.pc = "ready" /\ ~IsNone(strat.last)) =>
        \E l \in { Val(strat.last) } :
            /\ Len(l.results) = Len(l.executed)
            /\ \A k \in 1..Len(l.results) : l.results[k].symbol = l.executed[k].symbol
            /\ IF IsNone(l.filtered_trades)
               THEN l.executed = strat_in.trade_opportunities
               ELSE l.executed = Val(l.filtered_trades)

\* what holds of every call: a filtered list that is not empty is executed
\* as it is, in its order
NonEmptyFilteredListExecuted ==
    (strat.pc = "ready" /\ ~IsNone(strat.last)) =>
        \E l \in { Val(strat.last) } :
            /\ Len(l.results) = Len(l.executed)
            /\ \A k \in 1..Len(l.results) : l.results[k].symbol = l.executed[k].symbol
            /\ IF IsNone(l.filtered_trades) \/ Val(l.filtered_trades) = <<>>
               THEN l.executed = strat_in.trade_opportunities
               ELSE l.executed = Val(l.filtered_trades)

\* the two opportunities handed over in the other order were executed in it
FilteredOrderKept ==
    /\ strat.pc = "ready" /\ ~IsNone(strat.last)
    /\ Len(strat_in.trade_opportunities) = 2
    /\ Val(strat.last).executed = <<strat_in.trade_opportunities[2],
                                    strat_in.trade_opportunities[1]>>
    /\ Val(strat.last).executed # strat_in.trade_opportunities

====
